---- MODULE Spec2Model ----
(***************************************************************************)
(* Montezuma chess engine: the Zobrist hasher, the transposition cache,   *)
(* the iterative-deepening alpha-beta search and the UCI session.         *)
(*                                                                         *)
(* Two levels are modelled.                                                *)
(*  - The board level (SpecHash): the thc board primitive on the real 8x8  *)
(*    board (squares, castling flags, en-passant target, PushMove/PopMove, *)
(*    move generation) together with zobristHash64Calculate and            *)
(*    zobristHash64Update.  A 64-bit hash is the XOR of entries of         *)
(*    Random64; it is represented by the set of indices of the entries     *)
(*    XORed in, so XOR is symmetric difference.                            *)
(*  - The engine level (Spec, SpecUci): the session of engine.cpp, where   *)
(*    the board primitive is a fixed game graph (positions, legal move     *)
(*    lists in generation order, terminal classification, leaf scores)     *)
(*    and the search is a stack machine with one step per statement group. *)
(***************************************************************************)
EXTENDS Integers, Sequences, FiniteSets, TLC

(***************************************************************************)
(* Board level: thc::ChessRules                                            *)
(***************************************************************************)

SQUARE_INVALID == 64

IFILE(sq) == sq % 8

IRANK(sq) == 7 - (sq \div 8)

\* SQ(f,r) with f, r the 0-based file and rank (a8 = 0, h1 = 63)
SQ(f, r) == (7 - r) * 8 + f

a8 == SQ(0, 7)
b8 == SQ(1, 7)
c8 == SQ(2, 7)
d8 == SQ(3, 7)
e8 == SQ(4, 7)
f8 == SQ(5, 7)
g8 == SQ(6, 7)
h8 == SQ(7, 7)
a1 == SQ(0, 0)
b1 == SQ(1, 0)
c1 == SQ(2, 0)
d1 == SQ(3, 0)
e1 == SQ(4, 0)
f1 == SQ(5, 0)
g1 == SQ(6, 0)
h1 == SQ(7, 0)

SOUTH(sq) == sq + 8

NORTH(sq) == sq - 8

WhitePieces == {"P", "N", "B", "R", "Q", "K"}

BlackPieces == {"p", "n", "b", "r", "q", "k"}

IsEmptySquare(p) == p = " "

IsBlack(p) == p \in BlackPieces

IsWhite(p) == p \in WhitePieces

OnBoard(f, r) == f \in 0..7 /\ r \in 0..7

\* the contents of the lookup tables rook_lookup, bishop_lookup, knight_lookup,
\* king_lookup: the ray directions and single steps as (file, rank) offsets
RookDirs == {<<1, 0>>, <<-1, 0>>, <<0, 1>>, <<0, -1>>}

BishopDirs == {<<1, 1>>, <<1, -1>>, <<-1, 1>>, <<-1, -1>>}

QueenDirs == RookDirs \cup BishopDirs

KnightJumps == {<<1, 2>>, <<2, 1>>, <<2, -1>>, <<1, -2>>,
                <<-1, -2>>, <<-2, -1>>, <<-2, 1>>, <<-1, 2>>}

MkMove(src, dst, special, capture) ==
    [src |-> src, dst |-> dst, special |-> special, capture |-> capture]

\* the part of ChessPosition saved by DETAIL_PUSH and restored by DETAIL_POP
Detail(cr) ==
    [enpassant_target |-> cr.enpassant_target,
     wking_square |-> cr.wking_square, bking_square |-> cr.bking_square,
     wking |-> cr.wking, wqueen |-> cr.wqueen,
     bking |-> cr.bking, bqueen |-> cr.bqueen]

\* castling_prohibited_table applied by DETAIL_CASTLING(sq)
DetailCastling(cr, sq) ==
    [cr EXCEPT !.wking  = @ /\ sq \notin {e1, h1},
               !.wqueen = @ /\ sq \notin {e1, a1},
               !.bking  = @ /\ sq \notin {e8, h8},
               !.bqueen = @ /\ sq \notin {e8, a8}]

PromotionSpecials == {"SPECIAL_PROMOTION_QUEEN", "SPECIAL_PROMOTION_ROOK",
                      "SPECIAL_PROMOTION_BISHOP", "SPECIAL_PROMOTION_KNIGHT"}

PromotedPiece(special, white) ==
    CASE special = "SPECIAL_PROMOTION_QUEEN"  -> IF white THEN "Q" ELSE "q"
      [] special = "SPECIAL_PROMOTION_ROOK"   -> IF white THEN "R" ELSE "r"
      [] special = "SPECIAL_PROMOTION_BISHOP" -> IF white THEN "B" ELSE "b"
      [] OTHER                                -> IF white THEN "N" ELSE "n"

\* the squares written by PushMove, by special tag
PushSquares(cr, m) ==
    CASE m.special \in {"NOT_SPECIAL", "SPECIAL_KING_MOVE"} ->
            [cr.squares EXCEPT ![m.dst] = cr.squares[m.src], ![m.src] = " "]
      [] m.special \in PromotionSpecials ->
            [cr.squares EXCEPT ![m.src] = " ",
                               ![m.dst] = PromotedPiece(m.special, cr.white)]
      [] m.special = "SPECIAL_WEN_PASSANT" ->
            [cr.squares EXCEPT ![m.src] = " ", ![m.dst] = "P", ![SOUTH(m.dst)] = " "]
      [] m.special = "SPECIAL_BEN_PASSANT" ->
            [cr.squares EXCEPT ![m.src] = " ", ![m.dst] = "p", ![NORTH(m.dst)] = " "]
      [] m.special = "SPECIAL_WPAWN_2SQUARES" ->
            [cr.squares EXCEPT ![m.src] = " ", ![m.dst] = "P"]
      [] m.special = "SPECIAL_BPAWN_2SQUARES" ->
            [cr.squares EXCEPT ![m.src] = " ", ![m.dst] = "p"]
      [] m.special = "SPECIAL_WK_CASTLING" ->
            [cr.squares EXCEPT ![e1] = " ", ![f1] = "R", ![g1] = "K", ![h1] = " "]
      [] m.special = "SPECIAL_WQ_CASTLING" ->
            [cr.squares EXCEPT ![e1] = " ", ![d1] = "R", ![c1] = "K", ![a1] = " "]
      [] m.special = "SPECIAL_BK_CASTLING" ->
            [cr.squares EXCEPT ![e8] = " ", ![f8] = "r", ![g8] = "k", ![h8] = " "]
      [] m.special = "SPECIAL_BQ_CASTLING" ->
            [cr.squares EXCEPT ![e8] = " ", ![d8] = "r", ![c8] = "k", ![a8] = " "]

\* ChessRules::PushMove: save the detail, clear castling flags by destination,
\* reset the en-passant target, move the men, toggle the side to move
PushMove(cr, m) ==
    LET c1_ == DetailCastling(cr, m.dst)
        ep == CASE m.special = "SPECIAL_WPAWN_2SQUARES" -> SOUTH(m.dst)
                [] m.special = "SPECIAL_BPAWN_2SQUARES" -> NORTH(m.dst)
                [] OTHER -> SQUARE_INVALID
        wk == CASE m.special = "SPECIAL_KING_MOVE" /\ cr.white -> m.dst
                [] m.special = "SPECIAL_WK_CASTLING" -> g1
                [] m.special = "SPECIAL_WQ_CASTLING" -> c1
                [] OTHER -> cr.wking_square
        bk == CASE m.special = "SPECIAL_KING_MOVE" /\ ~cr.white -> m.dst
                [] m.special = "SPECIAL_BK_CASTLING" -> g8
                [] m.special = "SPECIAL_BQ_CASTLING" -> c8
                [] OTHER -> cr.bking_square
    IN  [c1_ EXCEPT !.detail_stack = Append(cr.detail_stack, Detail(cr)),
                    !.enpassant_target = ep,
                    !.wking_square = wk,
                    !.bking_square = bk,
                    !.squares = PushSquares(cr, m),
                    !.white = ~cr.white]

\* the squares written by PopMove, by special tag (white is already toggled back)
PopSquares(cr, white, m) ==
    CASE m.special \in PromotionSpecials ->
            [cr.squares EXCEPT ![m.src] = IF white THEN "P" ELSE "p",
                               ![m.dst] = m.capture]
      [] m.special = "SPECIAL_WEN_PASSANT" ->
            [cr.squares EXCEPT ![m.src] = "P", ![m.dst] = " ", ![SOUTH(m.dst)] = "p"]
      [] m.special = "SPECIAL_BEN_PASSANT" ->
            [cr.squares EXCEPT ![m.src] = "p", ![m.dst] = " ", ![NORTH(m.dst)] = "P"]
      [] m.special = "SPECIAL_WK_CASTLING" ->
            [cr.squares EXCEPT ![e1] = "K", ![f1] = " ", ![g1] = " ", ![h1] = "R"]
      [] m.special = "SPECIAL_WQ_CASTLING" ->
            [cr.squares EXCEPT ![e1] = "K", ![d1] = " ", ![c1] = " ", ![a1] = "R"]
      [] m.special = "SPECIAL_BK_CASTLING" ->
            [cr.squares EXCEPT ![e8] = "k", ![f8] = " ", ![g8] = " ", ![h8] = "r"]
      [] m.special = "SPECIAL_BQ_CASTLING" ->
            [cr.squares EXCEPT ![e8] = "k", ![d8] = " ", ![c8] = " ", ![a8] = "r"]
      [] OTHER ->
            [cr.squares EXCEPT ![m.src] = cr.squares[m.dst], ![m.dst] = m.capture]

\* ChessRules::PopMove: restore the detail, toggle the side to move, undo the men
PopMove(cr, m) ==
    LET d == cr.detail_stack[Len(cr.detail_stack)]
    IN  [cr EXCEPT !.detail_stack = SubSeq(cr.detail_stack, 1, Len(cr.detail_stack) - 1),
                   !.enpassant_target = d.enpassant_target,
                   !.wking_square = d.wking_square,
                   !.bking_square = d.bking_square,
                   !.wking = d.wking, !.wqueen = d.wqueen,
                   !.bking = d.bking, !.bqueen = d.bqueen,
                   !.white = ~cr.white,
                   !.squares = PopSquares(cr, ~cr.white, m)]

\* ChessRules::AttackedSquare: the lookup tables attacks_white_lookup and
\* attacks_black_lookup list, per ray, the squares and the enemy men that attack
\* from there (slider along the ray; king and pawn from the first square);
\* knights are tested from knight_lookup
RayTarget(sq, d, n) == SQ(IFILE(sq) + n * d[1], IRANK(sq) + n * d[2])

RayOnBoard(sq, d, n) == OnBoard(IFILE(sq) + n * d[1], IRANK(sq) + n * d[2])

RayClear(cr, sq, d, n) ==
    \A k \in 1..(n - 1) : IsEmptySquare(cr.squares[RayTarget(sq, d, k)])

AttackedSquare(cr, square, enemy_is_white) ==
    LET own(p) == IF enemy_is_white THEN IsWhite(p) ELSE IsBlack(p)
        up(p)  == CASE p \in {"P", "p"} -> "P" [] p \in {"N", "n"} -> "N"
                    [] p \in {"B", "b"} -> "B" [] p \in {"R", "r"} -> "R"
                    [] p \in {"Q", "q"} -> "Q" [] p \in {"K", "k"} -> "K"
                    [] OTHER -> " "
        \* a white pawn attacks the squares diagonally above it, so it attacks
        \* `square` from one rank below; a black pawn from one rank above
        pawnDir(d) == IF enemy_is_white THEN d[2] = -1 ELSE d[2] = 1
    IN  \/ \E d \in RookDirs : \E n \in 1..7 :
              /\ RayOnBoard(square, d, n)
              /\ RayClear(cr, square, d, n)
              /\ LET p == cr.squares[RayTarget(square, d, n)]
                 IN  own(p) /\ (up(p) \in {"R", "Q"} \/ (n = 1 /\ up(p) = "K"))
        \/ \E d \in BishopDirs : \E n \in 1..7 :
              /\ RayOnBoard(square, d, n)
              /\ RayClear(cr, square, d, n)
              /\ LET p == cr.squares[RayTarget(square, d, n)]
                 IN  own(p) /\ (\/ up(p) \in {"B", "Q"}
                                \/ (n = 1 /\ up(p) = "K")
                                \/ (n = 1 /\ up(p) = "P" /\ pawnDir(d)))
        \/ \E d \in KnightJumps :
              /\ RayOnBoard(square, d, 1)
              /\ cr.squares[RayTarget(square, d, 1)] = (IF enemy_is_white THEN "N" ELSE "n")

\* ChessRules::AttackedPiece
AttackedPiece(cr, square) == AttackedSquare(cr, square, IsBlack(cr.squares[square]))

\* ChessRules::Evaluate(): the position is legal when the king of the side that
\* has just moved is not attacked
Evaluate(cr) ==
    ~AttackedPiece(cr, IF cr.white THEN cr.bking_square ELSE cr.wking_square)

Enemy(cr, p) == IF cr.white THEN IsBlack(p) ELSE IsWhite(p)

\* ChessRules::LongMoves: along each ray up to and including the first enemy man
LongMoves(cr, square, dirs) ==
    { MkMove(square, RayTarget(square, dn[1], dn[2]), "NOT_SPECIAL",
             cr.squares[RayTarget(square, dn[1], dn[2])]) :
        dn \in { x \in dirs \X (1..7) :
                   /\ RayOnBoard(square, x[1], x[2])
                   /\ RayClear(cr, square, x[1], x[2])
                   /\ LET p == cr.squares[RayTarget(square, x[1], x[2])]
                      IN  IsEmptySquare(p) \/ Enemy(cr, p) } }

\* ChessRules::ShortMoves
ShortMoves(cr, square, steps, special) ==
    { MkMove(square, RayTarget(square, d, 1), special, cr.squares[RayTarget(square, d, 1)]) :
        d \in { x \in steps :
                  /\ RayOnBoard(square, x, 1)
                  /\ LET p == cr.squares[RayTarget(square, x, 1)]
                     IN  IsEmptySquare(p) \/ Enemy(cr, p) } }

\* ChessRules::KingMoves: the single steps and the castling moves
KingMoves(cr, square) ==
    ShortMoves(cr, square, QueenDirs, "SPECIAL_KING_MOVE")
    \cup { MkMove(e1, g1, "SPECIAL_WK_CASTLING", " ") : x \in
            { y \in {1} : /\ square = e1
                          /\ cr.squares[g1] = " " /\ cr.squares[f1] = " "
                          /\ cr.squares[h1] = "R" /\ cr.wking
                          /\ ~AttackedSquare(cr, e1, FALSE)
                          /\ ~AttackedSquare(cr, f1, FALSE)
                          /\ ~AttackedSquare(cr, g1, FALSE) } }
    \cup { MkMove(e1, c1, "SPECIAL_WQ_CASTLING", " ") : x \in
            { y \in {1} : /\ square = e1
                          /\ cr.squares[b1] = " " /\ cr.squares[c1] = " "
                          /\ cr.squares[d1] = " "
                          /\ cr.squares[a1] = "R" /\ cr.wqueen
                          /\ ~AttackedSquare(cr, e1, FALSE)
                          /\ ~AttackedSquare(cr, d1, FALSE)
                          /\ ~AttackedSquare(cr, c1, FALSE) } }
    \cup { MkMove(e8, g8, "SPECIAL_BK_CASTLING", " ") : x \in
            { y \in {1} : /\ square = e8
                          /\ cr.squares[g8] = " " /\ cr.squares[f8] = " "
                          /\ cr.squares[h8] = "r" /\ cr.bking
                          /\ ~AttackedSquare(cr, e8, TRUE)
                          /\ ~AttackedSquare(cr, f8, TRUE)
                          /\ ~AttackedSquare(cr, g8, TRUE) } }
    \cup { MkMove(e8, c8, "SPECIAL_BQ_CASTLING", " ") : x \in
            { y \in {1} : /\ square = e8
                          /\ cr.squares[b8] = " " /\ cr.squares[c8] = " "
                          /\ cr.squares[d8] = " "
                          /\ cr.squares[a8] = "r" /\ cr.bqueen
                          /\ ~AttackedSquare(cr, e8, TRUE)
                          /\ ~AttackedSquare(cr, d8, TRUE)
                          /\ ~AttackedSquare(cr, c8, TRUE) } }

\* ChessRules::WhitePawnMoves (dr = 1, from rank 2, promotion from rank 7) and
\* ChessRules::BlackPawnMoves (dr = -1, from rank 7, promotion from rank 2)
PawnMoves(cr, square, dr) ==
    LET f == IFILE(square)
        r == IRANK(square)
        promotion == IF dr = 1 THEN r = 6 ELSE r = 1
        home == IF dr = 1 THEN r = 1 ELSE r = 6
        ep == IF dr = 1 THEN "SPECIAL_WEN_PASSANT" ELSE "SPECIAL_BEN_PASSANT"
        two == IF dr = 1 THEN "SPECIAL_WPAWN_2SQUARES" ELSE "SPECIAL_BPAWN_2SQUARES"
        caps == { SQ(f + df, r + dr) : df \in { x \in {-1, 1} : OnBoard(f + x, r + dr) } }
        one == SQ(f, r + dr)
        kinds == IF promotion THEN PromotionSpecials ELSE {"NOT_SPECIAL"}
    IN  { MkMove(square, dst, ep, IF dr = 1 THEN "p" ELSE "P") :
            dst \in { x \in caps : x = cr.enpassant_target } }
        \cup { MkMove(square, ds[1], ds[2], cr.squares[ds[1]]) :
            ds \in { x \in caps \X kinds :
                       x[1] # cr.enpassant_target /\ Enemy(cr, cr.squares[x[1]]) } }
        \cup { MkMove(square, one, k, " ") :
            k \in { x \in kinds : OnBoard(f, r + dr) /\ IsEmptySquare(cr.squares[one]) } }
        \cup { MkMove(square, SQ(f, r + 2 * dr), two, " ") :
            x \in { y \in {1} : /\ home
                                /\ IsEmptySquare(cr.squares[one])
                                /\ IsEmptySquare(cr.squares[SQ(f, r + 2 * dr)]) } }

\* ChessRules::GenMoveList: every move of the side to move, legal or not
PieceMoves(cr, square) ==
    LET piece == cr.squares[square]
    IN  CASE piece = "P" -> PawnMoves(cr, square, 1)
          [] piece = "p" -> PawnMoves(cr, square, -1)
          [] piece \in {"N", "n"} -> ShortMoves(cr, square, KnightJumps, "NOT_SPECIAL")
          [] piece \in {"B", "b"} -> LongMoves(cr, square, BishopDirs)
          [] piece \in {"R", "r"} -> LongMoves(cr, square, RookDirs)
          [] piece \in {"Q", "q"} -> LongMoves(cr, square, QueenDirs)
          [] piece \in {"K", "k"} -> KingMoves(cr, square)
          [] OTHER -> {}

GenMoveList(cr) ==
    UNION { PieceMoves(cr, square) :
              square \in { s \in 0..63 : IF cr.white THEN IsWhite(cr.squares[s])
                                                     ELSE IsBlack(cr.squares[s]) } }

\* ChessRules::GenLegalMoveList: the moves after which Evaluate() is okay
GenLegalMoveList(cr) == { m \in GenMoveList(cr) : Evaluate(PushMove(cr, m)) }


\* ChessPosition::Forsyth: a position from its men (a set of <<square, piece>>),
\* the side to move, the castling letters and the en-passant target
Forsyth(men, white, castling, enpassant_target) ==
    LET squares == [s \in 0..63 |->
                      IF \E mp \in men : mp[1] = s
                      THEN (CHOOSE mp \in men : mp[1] = s)[2] ELSE " "]
    IN  [squares |-> squares,
         white |-> white,
         enpassant_target |-> enpassant_target,
         wking_square |-> CHOOSE s \in 0..63 : squares[s] = "K",
         bking_square |-> CHOOSE s \in 0..63 : squares[s] = "k",
         wking |-> "K" \in castling, wqueen |-> "Q" \in castling,
         bking |-> "k" \in castling, bqueen |-> "q" \in castling,
         detail_stack |-> <<>>]

\* thc.h: castling is allowed when the flag is set and king and rook stand on
\* their home squares
wking_allowed(cr) == cr.wking /\ cr.squares[e1] = "K" /\ cr.squares[h1] = "R"

wqueen_allowed(cr) == cr.wqueen /\ cr.squares[e1] = "K" /\ cr.squares[a1] = "R"

bking_allowed(cr) == cr.bking /\ cr.squares[e8] = "k" /\ cr.squares[h8] = "r"

bqueen_allowed(cr) == cr.bqueen /\ cr.squares[e8] = "k" /\ cr.squares[a8] = "r"

\* thc.h: the en-passant target, kept only when a pawn of the side to move
\* stands next to the pawn that has just advanced two squares
groomed_enpassant_target(cr) ==
    LET t == cr.enpassant_target
        pawn == IF cr.white THEN "P" ELSE "p"
        \* the capturing pawn stands on the rank of the advanced pawn
        idx == IF cr.white THEN SOUTH(t) ELSE NORTH(t)
        onrank == IF cr.white THEN t # SQUARE_INVALID /\ IRANK(t) = 5
                              ELSE t # SQUARE_INVALID /\ IRANK(t) = 2
    IN  IF /\ onrank
           /\ \/ (IFILE(t) > 0 /\ cr.squares[idx - 1] = pawn)
              \/ (IFILE(t) < 7 /\ cr.squares[idx + 1] = pawn)
        THEN t ELSE SQUARE_INVALID

(***************************************************************************)
(* hashing.cpp: a hash is the set of the indices into Random64 XORed in    *)
(***************************************************************************)

castleOffset == 768

enPassantOffset == 772

turnOffset == 780

\* hashing.h: kind of piece, the Polyglot numbering
pieceNumber(c) ==
    CASE c = "p" -> 0 [] c = "P" -> 1 [] c = "n" -> 2 [] c = "N" -> 3
      [] c = "b" -> 4 [] c = "B" -> 5 [] c = "r" -> 6 [] c = "R" -> 7
      [] c = "q" -> 8 [] c = "Q" -> 9 [] c = "k" -> 10 [] c = "K" -> 11

\* the index 64*pieceNumber[c-'B'] + 8*rank + file
PieceIndex(c, rank, file) == 64 * pieceNumber(c) + 8 * rank + file

\* hash ^= Random64[i]
Xor(hash, i) == (hash \ {i}) \cup ({i} \ hash)

RECURSIVE XorAll(_, _)
XorAll(hash, idxs) ==
    IF idxs = <<>> THEN hash ELSE XorAll(Xor(hash, Head(idxs)), Tail(idxs))

\* cond ? Random64[i] : 0
If(cond, idxs) == IF cond THEN idxs ELSE <<>>

zobristHash64Calculate(cr) ==
    { PieceIndex(cr.squares[i], 7 - (i \div 8), i % 8) :
        i \in { s \in 0..63 : cr.squares[s] # " " } }
    \cup { castleOffset + 0 : x \in { y \in {1} : wking_allowed(cr) } }
    \cup { castleOffset + 1 : x \in { y \in {1} : wqueen_allowed(cr) } }
    \cup { castleOffset + 2 : x \in { y \in {1} : bking_allowed(cr) } }
    \cup { castleOffset + 3 : x \in { y \in {1} : bqueen_allowed(cr) } }
    \cup { enPassantOffset + IFILE(groomed_enpassant_target(cr)) :
             x \in { y \in {1} : groomed_enpassant_target(cr) # SQUARE_INVALID } }
    \cup { turnOffset : x \in { y \in {1} : cr.white } }

\* the switch on move.special of zobristHash64Update: the indices XORed in
UpdateSwitch(cr, move) ==
    LET piece   == cr.squares[move.src]
        srcFile == IFILE(move.src)
        srcRank == IRANK(move.src)
        target  == cr.squares[move.dst]
        dstFile == IFILE(move.dst)
        dstRank == IRANK(move.dst)
        promo(w, b) ==
            If(target # " ", <<PieceIndex(target, dstRank, dstFile)>>)
            \o <<PieceIndex(piece, srcRank, srcFile),
                 PieceIndex(IF piece = "P" THEN w ELSE b, dstRank, dstFile)>>
    IN  CASE move.special = "SPECIAL_WK_CASTLING" ->
                <<PieceIndex("K", 0, 4), PieceIndex("K", 0, 6),
                  PieceIndex("R", 0, 7), PieceIndex("R", 0, 5), castleOffset + 0>>
                \o If(wqueen_allowed(cr), <<castleOffset + 1>>)
          [] move.special = "SPECIAL_BK_CASTLING" ->
                <<PieceIndex("k", 7, 4), PieceIndex("k", 7, 6),
                  PieceIndex("r", 7, 7), PieceIndex("r", 7, 5), castleOffset + 2>>
                \o If(bqueen_allowed(cr), <<castleOffset + 3>>)
          [] move.special = "SPECIAL_WQ_CASTLING" ->
                <<PieceIndex("K", 0, 4), PieceIndex("K", 0, 2),
                  PieceIndex("R", 0, 0), PieceIndex("R", 0, 3)>>
                \o If(wking_allowed(cr), <<castleOffset + 0>>) \o <<castleOffset + 1>>
          [] move.special = "SPECIAL_BQ_CASTLING" ->
                <<PieceIndex("k", 7, 4), PieceIndex("k", 7, 2),
                  PieceIndex("r", 7, 0), PieceIndex("r", 7, 3)>>
                \o If(bking_allowed(cr), <<castleOffset + 2>>) \o <<castleOffset + 3>>
          [] move.special = "SPECIAL_PROMOTION_QUEEN"  -> promo("Q", "q")
          [] move.special = "SPECIAL_PROMOTION_ROOK"   -> promo("R", "r")
          [] move.special = "SPECIAL_PROMOTION_BISHOP" -> promo("B", "b")
          [] move.special = "SPECIAL_PROMOTION_KNIGHT" -> promo("N", "n")
          [] move.special = "SPECIAL_WEN_PASSANT" ->
                <<PieceIndex("P", 4, srcFile), PieceIndex("P", 5, dstFile),
                  PieceIndex("p", 4, dstFile)>>
          [] move.special = "SPECIAL_BEN_PASSANT" ->
                <<PieceIndex("p", 3, srcFile), PieceIndex("p", 2, dstFile),
                  PieceIndex("P", 3, dstFile)>>
          [] OTHER ->
                If(target # " ", <<PieceIndex(target, dstRank, dstFile)>>)
                \o <<PieceIndex(piece, srcRank, srcFile),
                     PieceIndex(piece, dstRank, dstFile)>>
                \o (IF move.special \in {"SPECIAL_WPAWN_2SQUARES", "SPECIAL_BPAWN_2SQUARES"}
                    THEN LET pushed == PushMove(cr, move)
                         IN  If(groomed_enpassant_target(pushed) # SQUARE_INVALID,
                                <<enPassantOffset + IFILE(groomed_enpassant_target(pushed))>>)
                    ELSE IF piece = "K"
                    THEN If(wking_allowed(cr), <<castleOffset + 0>>)
                         \o If(wqueen_allowed(cr), <<castleOffset + 1>>)
                    ELSE IF piece = "k"
                    THEN If(bking_allowed(cr), <<castleOffset + 2>>)
                         \o If(bqueen_allowed(cr), <<castleOffset + 3>>)
                    ELSE IF piece = "R"
                    THEN If(srcFile = 7 /\ srcRank = 0 /\ wking_allowed(cr), <<castleOffset + 0>>)
                         \o If(srcFile = 0 /\ srcRank = 0 /\ wqueen_allowed(cr), <<castleOffset + 1>>)
                    ELSE IF piece = "r"
                    THEN If(srcFile = 7 /\ srcRank = 7 /\ bking_allowed(cr), <<castleOffset + 2>>)
                         \o If(srcFile = 0 /\ srcRank = 7 /\ bqueen_allowed(cr), <<castleOffset + 3>>)
                    ELSE <<>>)

\* an update that leaves the castling rights alone when a rook is taken at home
UpdateRookCaptureNone(cr, move) == <<>>

\* the tail of zobristHash64Update: castling rights lost with a captured rook
\* (move.capture is ' ' or a piece, never the zero character)
UpdateRookCapture(cr, move) ==
    LET target  == cr.squares[move.dst]
        dstFile == IFILE(move.dst)
        dstRank == IRANK(move.dst)
    IN  IF move.capture = "" THEN <<>>
        ELSE IF target = "r"
        THEN If(dstFile = 7 /\ dstRank = 7 /\ bking_allowed(cr), <<castleOffset + 2>>)
             \o If(dstFile = 0 /\ dstRank = 7 /\ bqueen_allowed(cr), <<castleOffset + 3>>)
        ELSE IF target = "R"
        THEN If(dstFile = 7 /\ dstRank = 0 /\ wking_allowed(cr), <<castleOffset + 0>>)
             \o If(dstFile = 0 /\ dstRank = 0 /\ wqueen_allowed(cr), <<castleOffset + 1>>)
        ELSE <<>>

\* zobristHash64Update: called with the board before the push, and again with
\* the board after the pop
zobristHash64Update(hash, cr, move) ==
    XorAll(hash,
           UpdateSwitch(cr, move)
           \o UpdateRookCapture(cr, move)
           \o If(groomed_enpassant_target(cr) # SQUARE_INVALID,
                 <<enPassantOffset + IFILE(groomed_enpassant_target(cr))>>)
           \o <<turnOffset>>)


(***************************************************************************)
(* Engine level: the board primitive as a game graph.                      *)
(*                                                                         *)
(* A position is a node; its legal moves are listed in the order           *)
(* GenLegalMoveList produces them, each by its terse name (Move::TerseOut),*)
(* with the position it leads to and whether it is a capture or a pawn     *)
(* move.  `check` says whether the king of the side to move is attacked,   *)
(* `material` and `positional` are the outputs of EvaluateLeaf, `draw` the *)
(* answer of IsDraw, `key` the value of zobristHash64Calculate.            *)
(* Cycles use reversible moves only and have length four, as on a board.   *)
(***************************************************************************)

Mv(name, to, irreversible) == [name |-> name, to |-> to, irreversible |-> irreversible]

Pos(white, moves, check, material, positional, draw, key) ==
    [white |-> white, moves |-> moves, check |-> check, material |-> material,
     positional |-> positional, draw |-> draw, key |-> key]

\* thc::ChessRules default constructor: the initial position
StartPos == 1

\* the positions of the game graph.  The keys stand for zobristHash64Calculate
\* of the boards: distinct, and two of them (3 and 16) in the same slot of the
\* cache
Game ==
    <<
    \* 1: the initial position; 2: after d2d4
    Pos(TRUE,  <<Mv("d2d4", 2, TRUE)>>,                          FALSE, 0, 0, FALSE, 1),
    Pos(FALSE, <<Mv("d7d5", 3, TRUE)>>,                          FALSE, 0, 3, FALSE, 2),
    \* 3..6: the queens shuffle d1-d2-d1, d8-d7-d8: a cycle of reversible moves
    Pos(TRUE,  <<Mv("d1d2", 4, FALSE), Mv("e2e4", 11, TRUE)>>,   FALSE, 0, 0, FALSE, 3),
    Pos(FALSE, <<Mv("d8d7", 5, FALSE)>>,                         FALSE, 0, 2, FALSE, 4),
    Pos(TRUE,  <<Mv("d2d1", 6, FALSE), Mv("d2d7", 11, TRUE)>>,   FALSE, 0, 1, FALSE, 5),
    Pos(FALSE, <<Mv("d7d8", 3, FALSE), Mv("a7a6", 10, TRUE)>>,   FALSE, 0, 0, FALSE, 6),
    \* 7..9: a lost position for the side to move (mated after any move)
    Pos(TRUE,  <<Mv("g1h1", 8, FALSE)>>,                         TRUE,  -9, 0, FALSE, 7),
    Pos(FALSE, <<Mv("a8a1", 9, FALSE)>>,                         FALSE, -9, 0, FALSE, 8),
    Pos(TRUE,  <<>>,                                             TRUE,  -9, 0, FALSE, 9),
    \* 10..13: knights out and back, a second cycle of reversible moves
    Pos(TRUE,  <<Mv("g1f3", 11, FALSE)>>,                        FALSE, 1, 0, FALSE, 10),
    Pos(FALSE, <<Mv("g8f6", 12, FALSE)>>,                        FALSE, 1, 2, FALSE, 11),
    Pos(TRUE,  <<Mv("f3g1", 13, FALSE)>>,                        FALSE, 1, 1, FALSE, 12),
    Pos(FALSE, <<Mv("f6g8", 10, FALSE)>>,                        FALSE, 1, 0, FALSE, 13),
    \* 14: 4k3/8/4K3/4Q3/8/8/8/8 w, mate in one by e5e7; 15: black is mated
    Pos(TRUE,  <<Mv("e6d6", 11, FALSE), Mv("e5e7", 15, FALSE)>>, FALSE, 9, 1, FALSE, 14),
    Pos(FALSE, <<>>,                                             TRUE,  9, 0, FALSE, 15),
    \* 16: mate in two by h1h7; 17: the defender's choice; 18, 19: the mates
    Pos(TRUE,  <<Mv("g1f3", 11, FALSE), Mv("h1h7", 17, FALSE)>>, FALSE, 5, 0, FALSE, 35),
    Pos(FALSE, <<Mv("g8f8", 18, FALSE), Mv("g8h8", 19, FALSE),
                 Mv("g8f7", 24, FALSE)>>,                        TRUE,  5, 0, FALSE, 17),
    Pos(TRUE,  <<Mv("h7f7", 15, FALSE)>>,                        FALSE, 5, 2, FALSE, 18),
    Pos(TRUE,  <<Mv("g1f3", 11, FALSE), Mv("h7g6", 21, FALSE),
                 Mv("a1a8", 20, FALSE)>>,                        FALSE, 5, 1, FALSE, 19),
    \* 20: black is mated; 21: black is stalemated
    Pos(FALSE, <<>>,                                             TRUE,  5, 0, FALSE, 20),
    Pos(FALSE, <<>>,                                             FALSE, 5, 0, FALSE, 21),
    \* 22: mate in three by b1b7; 23: the only reply leads to 16
    Pos(TRUE,  <<Mv("g1f3", 11, FALSE), Mv("b1b7", 23, FALSE)>>, FALSE, 5, 0, FALSE, 22),
    Pos(FALSE, <<Mv("h8g8", 16, FALSE)>>,                        TRUE,  5, 0, FALSE, 23),
    \* 24: the third defence of 17, mated by h7g7
    Pos(TRUE,  <<Mv("h7g7", 15, FALSE)>>,                        FALSE, 5, 1, FALSE, 24)
    >>

Positions == 1..Len(Game)

MoveNames == UNION { { Game[p].moves[i].name : i \in DOMAIN Game[p].moves } : p \in Positions }

\* the null move: alphaBeta's leaf move (src = dst = SQUARE_INVALID) and the
\* zero-filled move of a fresh cache slot (src = dst = a8); TerseOut prints both
\* as "0000" and retrievePvLineFromTable rejects both
NullMove == "0000"

\* the moves of GenLegalMoveList, in order, by terse name
GameLegalMoves(cr) == [i \in DOMAIN Game[cr.pos].moves |-> Game[cr.pos].moves[i].name]

IsLegal(pos, name) == \E i \in DOMAIN Game[pos].moves : Game[pos].moves[i].name = name

GameMove(pos, name) ==
    Game[pos].moves[CHOOSE i \in DOMAIN Game[pos].moves : Game[pos].moves[i].name = name]

\* ChessRules::PushMove on the graph: the detail stack keeps what PopMove restores
GamePush(cr, name) ==
    [pos |-> GameMove(cr.pos, name).to, stack |-> Append(cr.stack, cr.pos)]

\* ChessRules::PopMove on the graph
GamePop(cr, name) ==
    [pos |-> cr.stack[Len(cr.stack)], stack |-> SubSeq(cr.stack, 1, Len(cr.stack) - 1)]

\* a ^ b on naturals
RECURSIVE BitXor(_, _)
BitXor(a, b) ==
    IF a = 0 THEN b
    ELSE IF b = 0 THEN a
    ELSE 2 * BitXor(a \div 2, b \div 2) + ((a + b) % 2)

\* zobristHash64Calculate on the graph
GameHashCalculate(cr) == Game[cr.pos].key

\* zobristHash64Update on the graph: the XOR of the Random64 entries in which
\* the board before the move and the board after it differ (C4), applied to
\* the hash passed in; `cr` is the board before the push or after the pop
GameHashUpdate(hash, cr, name) ==
    BitXor(hash, BitXor(Game[cr.pos].key, Game[GameMove(cr.pos, name).to].key))


(***************************************************************************)
(* engine.cpp: the transposition cache and the search.  `e` is the Engine  *)
(* object: a record of its members.                                        *)
(***************************************************************************)

MATE_SCORE == 100000

\* the slots of the cache: numPositions_ = hashTableSize_*1024*1024/sizeof(hashEntry),
\* scaled down
NumSlots == 32

\* a value-initialised hashEntry, as hashTable_.resize leaves it
EmptyEntry ==
    [key |-> 0, depth |-> 0, flag |-> "NONE", score |-> 0, bestMove |-> NullMove,
     repetitionCount |-> 0]

\* the slot of the current hash: currentHash_ % numPositions_ (slots from 0)
Slot(e) == e.currentHash_ % e.numPositions_

Abs(x) == IF x < 0 THEN -x ELSE x

\* a probeHash that does not compare the stored depth with the depth asked for
probeHashAnyDepth(e, depth, alpha, beta) ==
    LET entry == e.hashTable_[Slot(e)]
        miss == [hit |-> FALSE, score |-> 0, e |-> e]
    IN  IF entry.key = e.currentHash_
        THEN IF entry.repetitionCount >= 2
             THEN [hit |-> TRUE, score |-> 0,
                   e |-> [e EXCEPT !.hashTable_[Slot(e)].score = 0,
                                   !.hashTable_[Slot(e)].flag = "EXACT"]]
             ELSE IF entry.flag = "EXACT"
             THEN [hit |-> TRUE, score |-> entry.score, e |-> e]
             ELSE IF entry.flag = "ALPHA" /\ entry.score <= alpha
             THEN [hit |-> TRUE, score |-> alpha, e |-> e]
             ELSE IF entry.flag = "BETA" /\ entry.score >= beta
             THEN [hit |-> TRUE, score |-> beta, e |-> e]
             ELSE miss
        ELSE miss

\* Engine::probeHash: [hit, score, e], e with the entry rewritten on a repetition hit
probeHash(e, depth, alpha, beta) ==
    LET entry == e.hashTable_[Slot(e)]
        miss == [hit |-> FALSE, score |-> 0, e |-> e]
    IN  IF entry.key = e.currentHash_ /\ entry.depth >= depth
        THEN IF entry.repetitionCount >= 2
             THEN [hit |-> TRUE, score |-> 0,
                   e |-> [e EXCEPT !.hashTable_[Slot(e)].score = 0,
                                   !.hashTable_[Slot(e)].flag = "EXACT"]]
             ELSE IF entry.flag = "EXACT"
             THEN [hit |-> TRUE, score |-> entry.score, e |-> e]
             ELSE IF entry.flag = "ALPHA" /\ entry.score <= alpha
             THEN [hit |-> TRUE, score |-> alpha, e |-> e]
             ELSE IF entry.flag = "BETA" /\ entry.score >= beta
             THEN [hit |-> TRUE, score |-> beta, e |-> e]
             ELSE miss
        ELSE miss

\* a recordHash that replaces whatever the slot holds
recordHashAlways(e, depth, flag, score, bestMove) ==
    LET entry == e.hashTable_[Slot(e)]
        counted == IF entry.flag = "NONE"
                   THEN [e EXCEPT !.tableEntries_ = @ + 1] ELSE e
    IN  [counted EXCEPT !.hashTable_[Slot(e)] =
            [key |-> e.currentHash_, depth |-> depth, flag |-> flag,
             score |-> score, bestMove |-> bestMove,
             repetitionCount |-> entry.repetitionCount]]

\* Engine::recordHash
recordHash(e, depth, flag, score, bestMove) ==
    LET entry == e.hashTable_[Slot(e)]
        counted == IF entry.flag = "NONE"
                   THEN [e EXCEPT !.tableEntries_ = @ + 1] ELSE e
    IN  IF entry.flag = "NONE" \/ entry.depth <= depth
        THEN [counted EXCEPT !.hashTable_[Slot(e)] =
                 [key |-> e.currentHash_, depth |-> depth, flag |-> flag,
                  score |-> score, bestMove |-> bestMove,
                  repetitionCount |-> entry.repetitionCount]]
        ELSE counted

\* ChessRules::Evaluate(TERMINAL&): checkmate or stalemate of the side to move
Terminal(cr) ==
    IF Game[cr.pos].moves # <<>> THEN "NOT_TERMINAL"
    ELSE IF Game[cr.pos].check
         THEN (IF Game[cr.pos].white THEN "TERMINAL_WCHECKMATE" ELSE "TERMINAL_BCHECKMATE")
         ELSE (IF Game[cr.pos].white THEN "TERMINAL_WSTALEMATE" ELSE "TERMINAL_BSTALEMATE")

\* an evaluate that does not look for checkmate or stalemate
evaluateLeafOnly(e) ==
    IF Game[e.cr_.pos].white
    THEN 4 * Game[e.cr_.pos].material + Game[e.cr_.pos].positional
    ELSE -4 * Game[e.cr_.pos].material + Game[e.cr_.pos].positional

\* Engine::evaluate
evaluate(e) ==
    LET p == Game[e.cr_.pos]
        terminalScore == Terminal(e.cr_)
    IN  IF p.draw THEN 0
        ELSE IF terminalScore = "TERMINAL_WCHECKMATE"
        THEN (IF ~p.white THEN MATE_SCORE ELSE -MATE_SCORE)
        ELSE IF terminalScore = "TERMINAL_BCHECKMATE"
        THEN (IF ~p.white THEN -MATE_SCORE ELSE MATE_SCORE)
        ELSE IF terminalScore \in {"TERMINAL_WSTALEMATE", "TERMINAL_BSTALEMATE"}
        THEN 0
        ELSE IF p.white THEN 4 * p.material + p.positional
        ELSE -4 * p.material + p.positional

\* Engine::alphaBeta, lines 231-243: the previous PV's move at this ply first
\* (the local variable is named legalMoves in the source)
OrderMoves(e, legalMoves, moveDepth) ==
    IF e.usingPreviousLine_ /\ moveDepth < e.globalPvLine_.moveCount
    THEN LET want == e.globalPvLine_.moves[moveDepth + 1]
             hits == { i \in DOMAIN legalMoves : legalMoves[i] = want }
         IN  IF hits = {} THEN legalMoves
             ELSE LET i == CHOOSE k \in hits : \A j \in hits : k <= j
                  IN  [legalMoves EXCEPT ![1] = legalMoves[i], ![i] = legalMoves[1]]
    ELSE legalMoves

\* Engine::alphaBeta, lines 234-243: usingPreviousLine_ after the ordering; the
\* else that clears it belongs to the outer if, not to the search of the list
KeepsPreviousLine(e, moveDepth) ==
    e.usingPreviousLine_ /\ moveDepth < e.globalPvLine_.moveCount

\* the mate score correction of alphaBeta, lines 263-266
MateCorrection(currentScore) ==
    IF MATE_SCORE - Abs(currentScore) < 100
    THEN (IF currentScore > 0 THEN currentScore - 1 ELSE currentScore + 1)
    ELSE currentScore

\* Engine::alphaBeta, lines 254-256: the hash is updated, the move pushed, the
\* slot of the new position counted
EnterMove(e, mv) ==
    LET hashed == [e EXCEPT !.currentHash_ = GameHashUpdate(e.currentHash_, e.cr_, mv),
                            !.cr_ = GamePush(e.cr_, mv)]
    IN  [hashed EXCEPT !.hashTable_[Slot(hashed)].repetitionCount = @ + 1]

\* LeaveMove without line 258: the count of the slot is not taken back
LeaveMoveCounted(e, mv) ==
    LET popped == [e EXCEPT !.cr_ = GamePop(e.cr_, mv)]
    IN  [popped EXCEPT !.currentHash_ = GameHashUpdate(popped.currentHash_, popped.cr_, mv)]

\* Engine::alphaBeta, lines 258-260: the count taken back, the move popped, the
\* hash updated with the board after the pop
LeaveMove(e, mv) ==
    LET popped == [e EXCEPT !.hashTable_[Slot(e)].repetitionCount = @ - 1,
                            !.cr_ = GamePop(e.cr_, mv)]
    IN  [popped EXCEPT !.currentHash_ = GameHashUpdate(popped.currentHash_, popped.cr_, mv)]

RECURSIVE alphaBetaFrom(_, _, _, _, _, _, _, _, _)
\* an alphaBeta that goes on to the next child after a score of beta or more
alphaBetaNoCutoff(e, alpha, beta, depth, initialDepth, i, legalMoves, bestMove, flag) ==
    IF i = 0
    THEN LET probe == probeHash(e, depth, alpha, beta)
             generated == GameLegalMoves(e.cr_)
         IN  IF probe.hit THEN [score |-> probe.score, e |-> probe.e]
             ELSE IF depth = 0 \/ Len(generated) = 0
             THEN LET score == evaluate(e)
                      counted == [e EXCEPT !.evaluatedPositions_ = @ + 1]
                  IN  [score |-> score,
                       e |-> recordHash(counted, depth, "EXACT", score, NullMove)]
             ELSE LET moveDepth == initialDepth - depth
                      ordered == OrderMoves(e, generated, moveDepth)
                      cleared == [e EXCEPT !.usingPreviousLine_ =
                                               KeepsPreviousLine(e, moveDepth)]
                  IN  alphaBetaFrom(cleared, alpha, beta, depth, initialDepth, 1, ordered,
                                    generated[1], "ALPHA")
    ELSE IF i > Len(legalMoves)
    THEN [score |-> alpha, e |-> recordHash(e, depth, flag, alpha, bestMove)]
    ELSE
    LET mv == legalMoves[i]
        r  == alphaBetaFrom(EnterMove(e, mv), -beta, -alpha, depth - 1, initialDepth,
                            0, <<>>, NullMove, "ALPHA")
        left == LeaveMove(r.e, mv)
        currentScore == MateCorrection(-r.score)
    IN  IF currentScore > alpha
        THEN alphaBetaFrom([left EXCEPT !.usingPreviousLine_ = FALSE], currentScore, beta,
                           depth, initialDepth, i + 1, legalMoves, mv, "EXACT")
        ELSE alphaBetaFrom(left, alpha, beta, depth, initialDepth, i + 1, legalMoves,
                           bestMove, flag)

\* Engine::alphaBeta entered at its first line (i = 0) or resumed in its loop at
\* the i-th of legalMoves (i >= 1) with the locals bestMove and flag: [score, e].
\* The lines written through pvLine are never read (inputGo prints the line
\* retrieved from the cache) and are left out.
alphaBetaFrom(e, alpha, beta, depth, initialDepth, i, legalMoves, bestMove, flag) ==
    IF i = 0
    THEN \* lines 212-243
         LET probe == probeHash(e, depth, alpha, beta)
             generated == GameLegalMoves(e.cr_)
         IN  IF probe.hit THEN [score |-> probe.score, e |-> probe.e]
             ELSE IF depth = 0 \/ Len(generated) = 0
             THEN LET score == evaluate(e)
                      counted == [e EXCEPT !.evaluatedPositions_ = @ + 1]
                  IN  [score |-> score,
                       e |-> recordHash(counted, depth, "EXACT", score, NullMove)]
             ELSE LET moveDepth == initialDepth - depth
                      ordered == OrderMoves(e, generated, moveDepth)
                      cleared == [e EXCEPT !.usingPreviousLine_ =
                                               KeepsPreviousLine(e, moveDepth)]
                  IN  alphaBetaFrom(cleared, alpha, beta, depth, initialDepth, 1, ordered,
                                    generated[1], "ALPHA")
    ELSE IF i > Len(legalMoves)
    THEN \* lines 285-286
         [score |-> alpha, e |-> recordHash(e, depth, flag, alpha, bestMove)]
    ELSE \* lines 253-283
    LET mv == legalMoves[i]
        r  == alphaBetaFrom(EnterMove(e, mv), -beta, -alpha, depth - 1, initialDepth,
                            0, <<>>, NullMove, "ALPHA")
        left == LeaveMove(r.e, mv)
        currentScore == MateCorrection(-r.score)
    IN  IF currentScore >= beta
        THEN [score |-> beta, e |-> recordHash(left, depth, "BETA", beta, mv)]
        ELSE IF currentScore > alpha
        THEN alphaBetaFrom([left EXCEPT !.usingPreviousLine_ = FALSE], currentScore, beta,
                           depth, initialDepth, i + 1, legalMoves, mv, "EXACT")
        ELSE alphaBetaFrom(left, alpha, beta, depth, initialDepth, i + 1, legalMoves,
                           bestMove, flag)

\* Engine::alphaBeta(alpha, beta, depth, pvLine, initialDepth)
alphaBeta(e, alpha, beta, depth, initialDepth) ==
    alphaBetaFrom(e, alpha, beta, depth, initialDepth, 0, <<>>, NullMove, "ALPHA")

\* the longest line retrievePvLineFromTable collects
MaxPvMoves == 30

RECURSIVE retrievePvLineFromTableAnyKey(_, _)
\* a retrievePvLineFromTable that never compares the slot's key with the hash:
\* the line ends with the first move the position does not have
retrievePvLineFromTableAnyKey(e, hashHistory) ==
    LET entry == e.hashTable_[Slot(e)]
    IN  IF \/ entry.flag = "NONE"
           \/ entry.bestMove = NullMove
           \/ e.globalPvLine_.moveCount >= MaxPvMoves
           \/ e.currentHash_ \in hashHistory
        THEN e
        ELSE LET mv == entry.bestMove
                 en1 == [e EXCEPT !.globalPvLine_ =
                           [moveCount |-> @.moveCount + 1,
                            moves |-> [@.moves EXCEPT ![e.globalPvLine_.moveCount + 1] = mv]]]
             IN  IF ~IsLegal(e.cr_.pos, mv) THEN en1
                 ELSE
                 LET pushed1 == [en1 EXCEPT !.currentHash_ = GameHashUpdate(e.currentHash_, e.cr_, mv),
                                            !.cr_ = GamePush(e.cr_, mv)]
                     deeper == retrievePvLineFromTableAnyKey(pushed1, hashHistory \cup {e.currentHash_})
                     popped == [deeper EXCEPT !.cr_ = GamePop(deeper.cr_, mv)]
                 IN  [popped EXCEPT !.currentHash_ = GameHashUpdate(popped.currentHash_, popped.cr_, mv)]

RECURSIVE retrievePvLineFromTable(_, _)
\* Engine::retrievePvLineFromTable(pvLine, hashHistory): e with globalPvLine_
\* extended, the board pushed and popped back
retrievePvLineFromTable(e, hashHistory) ==
    LET entry == e.hashTable_[Slot(e)]
    IN  IF \/ entry.flag = "NONE"
           \/ entry.bestMove = NullMove
           \/ entry.key # e.currentHash_
           \/ e.globalPvLine_.moveCount >= MaxPvMoves
           \/ e.currentHash_ \in hashHistory
        THEN e
        ELSE LET mv == entry.bestMove
                 en1 == [e EXCEPT !.globalPvLine_ =
                           [moveCount |-> @.moveCount + 1,
                            moves |-> [@.moves EXCEPT ![e.globalPvLine_.moveCount + 1] = mv]]]
                 pushed1 == [en1 EXCEPT !.currentHash_ = GameHashUpdate(e.currentHash_, e.cr_, mv),
                                        !.cr_ = GamePush(e.cr_, mv)]
                 deeper == retrievePvLineFromTable(pushed1, hashHistory \cup {e.currentHash_})
                 popped == [deeper EXCEPT !.cr_ = GamePop(deeper.cr_, mv)]
             IN  [popped EXCEPT !.currentHash_ = GameHashUpdate(popped.currentHash_, popped.cr_, mv)]

(***************************************************************************)
(* State                                                                   *)
(***************************************************************************)

VARIABLES
    board,       \* board level: the thc::ChessRules object cr_
    boardHash,   \* board level: currentHash_
    pushed,      \* board level: the moves pushed and not yet popped
    lastOp,      \* board level: the last operation on the board and its move
    engine,      \* the Engine object: a record of its members
    futures,     \* protocolLoop's local `futures`: one inputGo thread per go
    output,      \* the lines written to outputStream_
    loop,        \* protocolLoop: "reading", "quit" (left the loop), "returned"
    commands,    \* the number of commands read
    lastCmd      \* the last command handled, and whether a search was in flight

boardVars == <<board, boardHash, pushed, lastOp>>

engineVars == <<engine, futures, output, loop, commands, lastCmd>>

vars == <<board, boardHash, pushed, lastOp, engine, futures, output, loop, commands, lastCmd>>

(***************************************************************************)
(* Board level specification: moves of a `position` command are played,    *)
(* then the search pushes and pops, each with its hash update              *)
(***************************************************************************)

\* the most plies played and pushed from a start position
MaxPly == 2

\* r3k2r/8/8/8/8/8/8/R3K2R w KQkq - : castling, king and rook moves, rook takes rook
FenCastle ==
    Forsyth({<<a8, "r">>, <<e8, "k">>, <<h8, "r">>, <<a1, "R">>, <<e1, "K">>, <<h1, "R">>},
            TRUE, {"K", "Q", "k", "q"}, SQUARE_INVALID)

\* r3k3/1P6/8/8/8/8/6p1/4K2R w Kq - : promotions, promotions taking a rook at home
FenPromotion ==
    Forsyth({<<a8, "r">>, <<e8, "k">>, <<SQ(1, 6), "P">>, <<SQ(6, 1), "p">>,
             <<e1, "K">>, <<h1, "R">>},
            TRUE, {"K", "q"}, SQUARE_INVALID)

\* 4k3/3p4/8/4P3/2p5/8/1P1P4/4K3 b - - : double pawn pushes with and without
\* a pawn placed to take en passant
FenPawns ==
    Forsyth({<<e8, "k">>, <<SQ(3, 6), "p">>, <<SQ(4, 4), "P">>, <<SQ(2, 3), "p">>,
             <<SQ(1, 1), "P">>, <<SQ(3, 1), "P">>, <<e1, "K">>},
            FALSE, {}, SQUARE_INVALID)

\* 4k3/8/8/8/3pP3/8/8/4K3 b - e3 : an en-passant target from the FEN
FenEnPassant ==
    Forsyth({<<e8, "k">>, <<SQ(3, 3), "p">>, <<SQ(4, 3), "P">>, <<e1, "K">>},
            FALSE, {}, SQ(4, 2))

StartPositions == {FenCastle, FenPromotion, FenPawns, FenEnPassant}

\* Engine::updatePosition, lines 106-108: the board from the FEN and its hash
InitHash ==
    /\ board \in StartPositions
    /\ boardHash = zobristHash64Calculate(board)
    /\ pushed = <<>>
    /\ lastOp = [op |-> "fen", move |-> MkMove(SQUARE_INVALID, SQUARE_INVALID, "NOT_SPECIAL", " ")]
    /\ engine = [cr_ |-> [pos |-> StartPos, stack |-> <<>>]]
    /\ futures = <<>>
    /\ output = <<>>
    /\ loop = "reading"
    /\ commands = [position |-> 0, go |-> 0, other |-> 0, positioned |-> FALSE]
    /\ lastCmd = [name |-> "none", inFlight |-> FALSE]

Plies == Len(board.detail_stack)

\* Engine::updatePosition, lines 120-126: one legal token of the move list
\* (ChessRules::PlayMove is PushMove plus the move history and the clocks)
PlayListedMove ==
    /\ pushed = <<>>
    /\ Plies < MaxPly
    /\ \E mv \in GenLegalMoveList(board) :
          /\ boardHash' = zobristHash64Update(boardHash, board, mv)
          /\ board' = PushMove(board, mv)
          /\ lastOp' = [op |-> "play", move |-> mv]
    /\ UNCHANGED pushed
    /\ UNCHANGED engineVars

\* Engine::alphaBeta, lines 254-255, and retrievePvLineFromTable, lines 371-372
SearchPush ==
    /\ Plies < MaxPly
    /\ \E mv \in GenLegalMoveList(board) :
          /\ boardHash' = zobristHash64Update(boardHash, board, mv)
          /\ board' = PushMove(board, mv)
          /\ pushed' = Append(pushed, mv)
          /\ lastOp' = [op |-> "push", move |-> mv]
    /\ UNCHANGED engineVars

\* Engine::alphaBeta, lines 259-260, and retrievePvLineFromTable, lines 374-375
SearchPop ==
    /\ pushed # <<>>
    /\ LET mv == pushed[Len(pushed)]
           popped == PopMove(board, mv)
       IN  /\ board' = popped
           /\ boardHash' = zobristHash64Update(boardHash, popped, mv)
           /\ pushed' = SubSeq(pushed, 1, Len(pushed) - 1)
           /\ lastOp' = [op |-> "pop", move |-> mv]
    /\ UNCHANGED engineVars

NextHash == PlayListedMove \/ SearchPush \/ SearchPop

SpecHash == InitHash /\ [][NextHash]_vars

\* C4: after every push and every pop, of the search or of a position command's
\* move list, the incrementally maintained hash equals the hash computed from
\* scratch for the current board
C4_HashMatchesCalculate == boardHash = zobristHash64Calculate(board)

(***************************************************************************)
(* Engine level: protocolLoop, its command handlers and the inputGo threads *)
(***************************************************************************)

\* the most commands read before quit in one session of a GUI that waits for
\* each search to finish
MaxCmds == 4

\* the most commands read before quit in one session of a GUI that does not wait
MaxCmdsUci == 3

\* the most position commands, go commands, and commands other than position,
\* go and quit in one session
MaxPosition == 2
MaxGo == 2
MaxOther == 1

\* the largest depth given in a `go depth <d>` command
MaxGoDepth == 0

\* inputGo's default maxSearchDepth
DefaultDepth == 6

\* the positions given by `position fen`
FenRoots == {7, 14, 16, 22}

\* the parsed `position` commands: the root and the tokens after "moves "
PositionCommands ==
    {[root |-> StartPos, moves |-> <<>>],
     [root |-> StartPos, moves |-> <<"d2d4", "d7d5">>]}
    \cup {[root |-> r, moves |-> <<>>] : r \in FenRoots}

\* the parsed `go` commands: the depth cap and whether wtime/btime are given
GoCommands ==
    {[maxSearchDepth |-> DefaultDepth, usingTime |-> FALSE],
     [maxSearchDepth |-> DefaultDepth, usingTime |-> TRUE]}
    \cup {[maxSearchDepth |-> d, usingTime |-> FALSE] : d \in 0..MaxGoDepth}

\* the largest depth given in a `go depth <d>` command by the GUI that does not wait
MaxGoDepthUci == 2

\* the commands of the GUI that does not wait
PositionCommandsUci ==
    {[root |-> StartPos, moves |-> <<"d2d4", "d7d5">>], [root |-> 16, moves |-> <<>>]}

GoCommandsUci ==
    {[maxSearchDepth |-> d, usingTime |-> FALSE] : d \in 1..MaxGoDepthUci}
    \cup {[maxSearchDepth |-> MaxGoDepthUci, usingTime |-> TRUE]}

\* what the members the constructor leaves uninitialised may hold: currentHash_
\* and the moves of globalPvLine_ (TerseOut prints "0000" or some move)
Indeterminate ==
    {[currentHash_ |-> Game[StartPos].key, move |-> NullMove],
     [currentHash_ |-> Game[16].key, move |-> "d2d4"]}

\* book_ after Book::initialize: the entries of the book file (here: one, for
\* the initial position)
BookEntries == <<[key |-> Game[StartPos].key, move |-> "d2d4"]>>

\* Book::getMove: the first entry whose key is the hash, NullMove when none
getMove(book, hash) ==
    LET hits == { i \in DOMAIN book : book[i].key = hash }
    IN  IF hits = {} THEN NullMove
        ELSE book[CHOOSE i \in hits : \A j \in hits : i <= j].move

\* thc::ChessRules newcr
NewChessRules == [pos |-> StartPos, stack |-> <<>>]

\* Engine::resetBoard
resetBoard(e) ==
    [e EXCEPT !.cr_ = NewChessRules, !.isOpening_ = TRUE, !.repetitionHashHistory_ = <<>>]

\* Engine::initHashTable
initHashTable(e) ==
    [e EXCEPT !.numPositions_ = NumSlots,
              !.hashTable_ = [i \in 0..(NumSlots - 1) |-> EmptyEntry],
              !.tableEntries_ = 0]

\* std::count(repetitionHashHistory_.begin(), repetitionHashHistory_.end(), hash)
Count(history, hash) == Cardinality({ i \in DOMAIN history : history[i] = hash })

RECURSIVE PlayMoves(_, _)
\* Engine::updatePosition, lines 117-127: the tokens of the move list, in order
PlayMoves(e, movelist) ==
    IF movelist = <<>> THEN e
    ELSE LET mv == Head(movelist)
             hashed == [e EXCEPT !.currentHash_ = GameHashUpdate(e.currentHash_, e.cr_, mv)]
             noted == IF GameMove(e.cr_.pos, mv).irreversible
                      THEN [hashed EXCEPT !.repetitionHashHistory_ = <<>>]
                      ELSE [hashed EXCEPT !.repetitionHashHistory_ =
                                               Append(@, hashed.currentHash_)]
         IN  PlayMoves([noted EXCEPT !.cr_ = GamePush(noted.cr_, mv)], Tail(movelist))

RECURSIVE SetRepetitionCounts(_, _)
\* Engine::updatePosition, lines 129-130: the loop over repetitionHashHistory_
SetRepetitionCounts(e, rest) ==
    IF rest = <<>> THEN e
    ELSE SetRepetitionCounts(
             [e EXCEPT !.hashTable_[Head(rest) % e.numPositions_].repetitionCount =
                           Count(e.repetitionHashHistory_, Head(rest))],
             Tail(rest))

\* Engine::updatePosition
updatePosition(e, command) ==
    LET placed == [resetBoard(e) EXCEPT !.cr_ = [pos |-> command.root, stack |-> <<>>]]
        hashed == [placed EXCEPT !.currentHash_ = GameHashCalculate(placed.cr_),
                                 !.repetitionHashHistory_ =
                                     <<GameHashCalculate(placed.cr_)>>]
        played == PlayMoves(hashed, command.moves)
    IN  SetRepetitionCounts(played, played.repetitionHashHistory_)

\* the searches launched and not yet finished
Running == { i \in DOMAIN futures : futures[i].pc # "done" }

\* the repetitionCount of every slot
RepetitionCounts(e) == [i \in DOMAIN e.hashTable_ |-> e.hashTable_[i].repetitionCount]

Line(kind, go, depth, mate, score, pv) ==
    [kind |-> kind, go |-> go, depth |-> depth, mate |-> mate, score |-> score, pv |-> pv]

\* a line that belongs to no go
PlainLine(kind) == Line(kind, 0, 0, FALSE, 0, <<>>)

\* the commands read so far
CommandsRead == commands.position + commands.go + commands.other

\* a handshake that leaves the author line out
uciHandShakeNoAuthor(out) ==
    out \o <<PlainLine("id name Montezuma"), PlainLine("uciok")>>

\* Engine::uciHandShake, with name_ and author_ as the constructor sets them
uciHandShake(out) ==
    out \o <<PlainLine("id name Montezuma"), PlainLine("id author Michele Bolognini"),
             PlainLine("uciok")>>

\* protocolLoop reads one more command of the kind.  commands.positioned tells
\* whether a position command was read since the board was last reset: the GUI
\* sends go only then, so that currentHash_ is the hash of the board.
Reads(name, kind, max) ==
    /\ loop = "reading"
    /\ commands[kind] < max
    /\ commands' = [commands EXCEPT ![kind] = @ + 1,
                                    !.positioned = IF name = "position" THEN TRUE
                                                   ELSE IF name \in {"uci", "ucinewgame"} THEN FALSE
                                                   ELSE @]
    /\ lastCmd' = [name |-> name, inFlight |-> Running # {}]

\* Engine::Engine: resetBoard and initHashTable on an object whose other
\* members hold what the constructor leaves there
Constructed(junk) ==
    initHashTable(resetBoard(
        [cr_ |-> NewChessRules, isOpening_ |-> TRUE,
         repetitionHashHistory_ |-> <<>>, currentHash_ |-> junk.currentHash_,
         numPositions_ |-> 0, hashTable_ |-> <<>>, tableEntries_ |-> 0,
         evaluatedPositions_ |-> 0, usingPreviousLine_ |-> FALSE,
         globalPvLine_ |-> [moveCount |-> 0,
                            moves |-> [i \in 1..MaxPvMoves |-> junk.move]],
         book_ |-> BookEntries]))

\* the state after the constructor and the `uci` command a GUI sends first:
\* currentHash_, usingPreviousLine_ and globalPvLine_ are still uninitialised
Init ==
    /\ \E junk \in Indeterminate : engine = Constructed(junk)
    /\ futures = <<>>
    /\ output = uciHandShake(<<>>)
    /\ loop = "reading"
    /\ commands = [position |-> 0, go |-> 0, other |-> 0, positioned |-> FALSE]
    /\ lastCmd = [name |-> "uci", inFlight |-> FALSE]
    /\ board = FenCastle
    /\ boardHash = zobristHash64Calculate(FenCastle)
    /\ pushed = <<>>
    /\ lastOp = [op |-> "fen", move |-> MkMove(SQUARE_INVALID, SQUARE_INVALID, "NOT_SPECIAL", " ")]

\* protocolLoop, lines 31-34
Uci ==
    /\ Reads("uci", "other", MaxOther)
    /\ output' = uciHandShake(output)
    /\ engine' = initHashTable(resetBoard(engine))
    /\ UNCHANGED <<futures, loop, boardVars>>

\* protocolLoop, lines 35-38
IsReady ==
    /\ Reads("isready", "other", MaxOther)
    /\ output' = Append(output, PlainLine("readyok"))
    /\ UNCHANGED <<engine, futures, loop, boardVars>>

\* protocolLoop, lines 39-41
UciNewGame ==
    /\ Reads("ucinewgame", "other", MaxOther)
    /\ engine' = initHashTable(resetBoard(engine))
    /\ UNCHANGED <<futures, output, loop, boardVars>>

\* protocolLoop, lines 44-52: setoption and register
Unsupported ==
    /\ \E name \in {"setoption", "register"} : Reads(name, "other", MaxOther)
    /\ output' = Append(output, PlainLine("info string"))
    /\ UNCHANGED <<engine, futures, loop, boardVars>>

\* protocolLoop, lines 53-54
Position(sent) ==
    /\ \E command \in sent :
          engine' = updatePosition(engine, command)
    /\ Reads("position", "position", MaxPosition)
    /\ UNCHANGED <<futures, output, loop, boardVars>>

\* protocolLoop, lines 55-56: std::async launches inputGo on a new thread.
\* `start` records the board, the hash, the counters and the cache's fill at
\* the launch; nothing reads it.
Go(sent) ==
    /\ commands.positioned
    /\ Reads("go", "go", MaxGo)
    /\ \E command \in sent :
          futures' = Append(futures,
                        [pc |-> "start", maxSearchDepth |-> command.maxSearchDepth,
                         usingTime |-> command.usingTime, incrementalDepth |-> 1,
                         stopReceived |-> FALSE,
                         start |-> [cr_ |-> engine.cr_, currentHash_ |-> engine.currentHash_,
                                    repetitionCounts |-> RepetitionCounts(engine),
                                    tableEntries_ |-> engine.tableEntries_]])
    /\ UNCHANGED <<engine, output, loop, boardVars>>

\* protocolLoop has no branch for `stop`: the command is read and dropped.
\* stopReceived records which searches were running then; nothing reads it.
Stop ==
    /\ Reads("stop", "other", MaxOther)
    /\ futures' = [i \in DOMAIN futures |->
                      IF i \in Running THEN [futures[i] EXCEPT !.stopReceived = TRUE]
                      ELSE futures[i]]
    /\ UNCHANGED <<engine, output, loop, boardVars>>

\* protocolLoop, lines 58-59: quit leaves the loop
Quit ==
    /\ loop = "reading"
    /\ loop' = "quit"
    /\ lastCmd' = [name |-> "quit", inFlight |-> Running # {}]
    /\ UNCHANGED <<engine, futures, output, commands, boardVars>>

\* a protocolLoop that returns without waiting for its searches
FuturesDetached(fs) == TRUE

\* the destructor of `futures` at line 62-63: each future of std::async blocks
\* until its thread has finished
FuturesJoined(fs) == \A i \in DOMAIN fs : fs[i].pc = "done"

\* protocolLoop, lines 62-63: return 0
Return ==
    /\ loop = "quit"
    /\ FuturesJoined(futures)
    /\ loop' = "returned"
    /\ UNCHANGED <<engine, futures, output, commands, lastCmd, boardVars>>

\* inputGo, lines 137-171: the command is parsed, the book is tried
GoStart(i) ==
    /\ futures[i].pc = "start"
    /\ LET bestMove == getMove(engine.book_, engine.currentHash_)
       IN  IF engine.isOpening_ /\ bestMove # NullMove
           THEN /\ output' = Append(output, Line("bestmove", i, 0, FALSE, 0, <<bestMove>>))
                /\ futures' = [futures EXCEPT ![i].pc = "done"]
                /\ UNCHANGED engine
           ELSE /\ engine' = [engine EXCEPT !.isOpening_ = FALSE,
                                            !.usingPreviousLine_ = FALSE]
                /\ futures' = [futures EXCEPT ![i].pc = "loop"]
                /\ UNCHANGED output
    /\ UNCHANGED <<loop, commands, lastCmd, boardVars>>

\* inputGo, lines 185-186: the mate count printed for a score within 100 of mate
movesToMate(bestScore) ==
    IF bestScore > 0 THEN (MATE_SCORE - Abs(bestScore) + 1) \div 2
    ELSE -((MATE_SCORE - Abs(bestScore)) \div 2)

\* an info line that prints depth 1 whatever the depth
InfoLineFirstDepth(i, e, bestScore, incrementalDepth) ==
    Line("info", i, 1, FALSE, bestScore, <<>>)

\* inputGo, lines 185-195: the info line of one depth
InfoLine(i, e, bestScore, incrementalDepth) ==
    LET pv == SubSeq([k \in 1..MaxPvMoves |-> e.globalPvLine_.moves[k]], 1,
                     e.globalPvLine_.moveCount)
    IN  IF MATE_SCORE - Abs(bestScore) < 100
        THEN Line("info", i, incrementalDepth, TRUE, movesToMate(bestScore), pv)
        ELSE Line("info", i, incrementalDepth, FALSE, bestScore, pv)

\* inputGo, lines 174-203: one pass of the loop over incrementalDepth.  The
\* clock is not modelled: with wtime given the budget may be exceeded after
\* any depth.
GoIterate(i) ==
    /\ futures[i].pc = "loop"
    /\ futures[i].incrementalDepth <= futures[i].maxSearchDepth
    /\ LET d == futures[i].incrementalDepth
           searched == alphaBeta([engine EXCEPT !.evaluatedPositions_ = 0],
                                 -MATE_SCORE, MATE_SCORE, d, d)
           cleared == [searched.e EXCEPT !.globalPvLine_.moveCount = 0]
           retrieved == retrievePvLineFromTable(cleared, {})
       IN  /\ output' = Append(output, InfoLine(i, retrieved, searched.score, d))
           /\ engine' = [retrieved EXCEPT !.usingPreviousLine_ = TRUE]
           /\ \E timeUp \in {FALSE} \cup {futures[i].usingTime} :
                 futures' = IF timeUp
                            THEN [futures EXCEPT ![i].pc = "bestmove"]
                            ELSE [futures EXCEPT ![i].incrementalDepth = d + 1]
    /\ UNCHANGED <<loop, commands, lastCmd, boardVars>>

\* inputGo, line 206
GoBestMove(i) ==
    /\ \/ futures[i].pc = "bestmove"
       \/ futures[i].pc = "loop" /\ futures[i].incrementalDepth > futures[i].maxSearchDepth
    /\ output' = Append(output, Line("bestmove", i, 0, FALSE, 0,
                                     <<engine.globalPvLine_.moves[1]>>))
    /\ futures' = [futures EXCEPT ![i].pc = "done"]
    /\ UNCHANGED <<engine, loop, commands, lastCmd, boardVars>>

\* a GUI that waits for bestmove before it sends anything but stop or quit
Waits == Running = {} /\ CommandsRead < MaxCmds

\* the same GUI sends stop only to a running search
Next ==
    \/ Waits /\ Uci
    \/ Waits /\ IsReady
    \/ Waits /\ UciNewGame
    \/ Waits /\ Unsupported
    \/ Waits /\ Position(PositionCommands)
    \/ Waits /\ Go(GoCommands)
    \/ Running # {} /\ CommandsRead < MaxCmds /\ Stop
    \/ Quit
    \/ Return
    \/ \E i \in DOMAIN futures : GoStart(i)
    \/ \E i \in DOMAIN futures : GoIterate(i)
    \/ \E i \in DOMAIN futures : GoBestMove(i)

Spec == Init /\ [][Next]_vars

\* a GUI that sends any command at any time
Hurries == CommandsRead < MaxCmdsUci

NextUci ==
    \/ Hurries /\ Uci
    \/ Hurries /\ IsReady
    \/ Hurries /\ UciNewGame
    \/ Hurries /\ Unsupported
    \/ Hurries /\ Position(PositionCommandsUci)
    \/ Hurries /\ Go(GoCommandsUci)
    \/ Hurries /\ Stop
    \/ Quit
    \/ Return
    \/ \E i \in DOMAIN futures : GoStart(i)
    \/ \E i \in DOMAIN futures : GoIterate(i)
    \/ \E i \in DOMAIN futures : GoBestMove(i)

SpecUci == Init /\ [][NextUci]_vars

(***************************************************************************)
(* Properties of a session                                                 *)
(***************************************************************************)

\* the lines of the i-th go, in the order written
LinesOf(i) == SelectSeq(output, LAMBDA l : l.go = i)

\* the position the i-th go was launched in
RootOf(i) == futures[i].start.cr_.pos

C2_BestMoveLegal ==
    \A k \in DOMAIN output :
        (output[k].kind = "bestmove" /\ Len(LinesOf(output[k].go)) >= 2
            /\ Game[RootOf(output[k].go)].moves # <<>>)
        => IsLegal(RootOf(output[k].go), output[k].pv[1])

C5_NewGameAwaitsSearch == ~(lastCmd.name = "ucinewgame" /\ lastCmd.inFlight)

\* C6: at most one search runs at a time, and no position command is handled
\* while a search is in flight
C6_OneSearchOwnsState ==
    /\ Cardinality(Running) <= 1
    /\ ~(lastCmd.name = "position" /\ lastCmd.inFlight)

\* the info lines of the i-th go among the lines out
InfoCount(out, i) == Cardinality({ k \in DOMAIN out : out[k].go = i /\ out[k].kind = "info" })

\* C7: a search that was running when stop was read does no further depth
\* (writes no further info line)
C7_StopCancelsSearch ==
    [][\A i \in DOMAIN futures :
          futures[i].stopReceived => InfoCount(output', i) = InfoCount(output, i)]_vars

Aged(score) == IF score > 0 THEN score - 1 ELSE IF score < 0 THEN score + 1 ELSE 0

Max(scores) == CHOOSE x \in scores : \A y \in scores : y <= x

RECURSIVE MateValue(_, _)
\* the value of position p to the side to move by plain minimax over n plies,
\* counting only forced mates: MATE_SCORE - k when it mates in k plies,
\* -(MATE_SCORE - k) when it is mated in k plies, else 0
MateValue(p, n) ==
    IF Game[p].moves = <<>> THEN (IF Game[p].check THEN -MATE_SCORE ELSE 0)
    ELSE IF n = 0 THEN 0
    ELSE Max({ Aged(-MateValue(Game[p].moves[m].to, n - 1)) : m \in DOMAIN Game[p].moves })

\* the i-th go is a plain `go` after `ucinewgame` and `position fen <P>`, P not
\* in the book: the cache is empty, only the root is counted
FreshDefaultGo(i) ==
    /\ futures[i].maxSearchDepth = DefaultDepth
    /\ ~futures[i].usingTime
    /\ futures[i].start.tableEntries_ = 0
    /\ futures[i].start.cr_.stack = <<>>
    /\ futures[i].start.currentHash_ = Game[RootOf(i)].key
    /\ getMove(BookEntries, futures[i].start.currentHash_) = NullMove
    /\ futures[i].start.repetitionCounts =
           [slot \in 0..(NumSlots - 1) |->
               IF slot = Game[RootOf(i)].key % NumSlots THEN 1 ELSE 0]

C10_MateCountExact ==
    \A i \in DOMAIN futures :
        FreshDefaultGo(i) =>
            \A j \in DOMAIN output :
                (output[j].go = i /\ output[j].kind = "info"
                    /\ MateValue(RootOf(i), output[j].depth) # 0)
                => LET ref == MateValue(RootOf(i), output[j].depth)
                       k == MATE_SCORE - Abs(ref)
                   IN  /\ output[j].mate
                       /\ output[j].score = IF ref > 0 THEN (k + 1) \div 2 ELSE -(k \div 2)

\* an en-passant capture has been pushed and popped back
C4_Witness == lastOp.op = "pop" /\ lastOp.move.special = "SPECIAL_WEN_PASSANT"


(***************************************************************************)
(* The cache on its own: recordHash, probeHash, the repetition counters,   *)
(* initHashTable and the position command, called in any order with the    *)
(* current hash, the depth, the window and the entry drawn from small sets.*)
(***************************************************************************)

\* the hashes the search arrives at: 0 is the key of a never-written slot,
\* 3 and 35 share a slot
CacheHashes == {0, Game[3].key, Game[16].key}

\* the depths recorded and the depths asked for
RecordDepths == {1, 10}

ProbeDepths == {0, 1, 11}

\* what alphaBeta records: the bound, the score and the best move
CacheWrites ==
    {[flag |-> "EXACT", score |-> 5, bestMove |-> "d2d4"],
     [flag |-> "ALPHA", score |-> -5, bestMove |-> "d7d5"],
     [flag |-> "BETA", score |-> 5, bestMove |-> "d1d2"]}

\* the windows asked with
CacheWindows ==
    {[alpha |-> -9, beta |-> -7], [alpha |-> -1, beta |-> 1], [alpha |-> 7, beta |-> 9]}

\* the most occurrences of one slot's positions counted at once
MaxRepetitionCount == 2

\* the engine with the search at a position of hash h
At(h) == [engine EXCEPT !.currentHash_ = h]

\* the search back at the root
Back(e) == [e EXCEPT !.currentHash_ = engine.currentHash_]

InitCache ==
    /\ \E junk \in Indeterminate : engine = Constructed(junk)
    /\ lastOp = [op |-> "constructor", hash |-> 0, depth |-> 0]
    /\ futures = <<>>
    /\ output = <<>>
    /\ loop = "reading"
    /\ commands = [position |-> 0, go |-> 0, other |-> 0, positioned |-> FALSE]
    /\ lastCmd = [name |-> "none", inFlight |-> FALSE]
    /\ board = FenCastle
    /\ boardHash = zobristHash64Calculate(FenCastle)
    /\ pushed = <<>>

cacheFrame == <<board, boardHash, pushed, futures, output, loop, commands, lastCmd>>

\* protocolLoop, lines 39-41 (ucinewgame): initHashTable
CacheReset ==
    /\ engine' = initHashTable(engine)
    /\ lastOp' = [op |-> "initHashTable", hash |-> 0, depth |-> 0]
    /\ UNCHANGED cacheFrame

\* alphaBeta, lines 227, 272, 285: recordHash at the current position
CacheRecord ==
    \E h \in CacheHashes, d \in RecordDepths, w \in CacheWrites :
        /\ engine' = Back(recordHash(At(h), d, w.flag, w.score, w.bestMove))
        /\ lastOp' = [op |-> "recordHash", hash |-> h, depth |-> d]
        /\ UNCHANGED cacheFrame

\* alphaBeta, line 213: probeHash at the current position
CacheProbe ==
    \E h \in CacheHashes, d \in ProbeDepths, w \in CacheWindows :
        /\ engine' = Back(probeHash(At(h), d, w.alpha, w.beta).e)
        /\ lastOp' = [op |-> "probeHash", hash |-> 0, depth |-> 0]
        /\ UNCHANGED cacheFrame

\* alphaBeta, line 256: the slot of the position entered is counted
CacheCountUp ==
    \E h \in CacheHashes :
        /\ engine.hashTable_[h % engine.numPositions_].repetitionCount < MaxRepetitionCount
        /\ engine' = [engine EXCEPT !.hashTable_[h % engine.numPositions_].repetitionCount = @ + 1]
        /\ lastOp' = [op |-> "count", hash |-> 0, depth |-> 0]
        /\ UNCHANGED cacheFrame

\* alphaBeta, line 258: the count is taken back
CacheCountDown ==
    \E h \in CacheHashes :
        /\ engine.hashTable_[h % engine.numPositions_].repetitionCount > 0
        /\ engine' = [engine EXCEPT !.hashTable_[h % engine.numPositions_].repetitionCount = @ - 1]
        /\ lastOp' = [op |-> "count", hash |-> 0, depth |-> 0]
        /\ UNCHANGED cacheFrame

\* protocolLoop, lines 53-54: a position command
CachePosition ==
    \E sent \in PositionCommandsUci :
        /\ engine' = updatePosition(engine, sent)
        /\ lastOp' = [op |-> "position", hash |-> 0, depth |-> 0]
        /\ UNCHANGED cacheFrame

NextCache ==
    \/ CacheReset
    \/ CacheRecord
    \/ CacheProbe
    \/ CacheCountUp
    \/ CacheCountDown
    \/ CachePosition

SpecCache == InitCache /\ [][NextCache]_vars

\* the slot of hash h
SlotOf(h) == engine.hashTable_[h % engine.numPositions_]

\* C11: recordHash writes key, depth, bound, score and best move into the slot
\* of the current hash exactly when the slot is empty or the new depth is at
\* least the stored depth, and otherwise leaves the slot as it is; no other slot
\* changes, and the stored depth of the slot never gets smaller
C11_RecordReplacesNotWorse ==
    \A h \in CacheHashes, d \in RecordDepths, w \in CacheWrites :
        LET old == SlotOf(h)
            after == recordHash(At(h), d, w.flag, w.score, w.bestMove).hashTable_
            new == after[h % engine.numPositions_]
        IN  /\ \A i \in DOMAIN after : i # h % engine.numPositions_
                                        => after[i] = engine.hashTable_[i]
            /\ IF old.flag = "NONE" \/ d >= old.depth
               THEN new = [key |-> h, depth |-> d, flag |-> w.flag, score |-> w.score,
                           bestMove |-> w.bestMove, repetitionCount |-> old.repetitionCount]
               ELSE new = old
            /\ new.depth >= old.depth

\* a depth-10 entry is still in its slot after a depth-1 write of another key
\* to that slot
C11_Witness ==
    /\ lastOp.op = "recordHash"
    /\ lastOp.depth = 1
    /\ SlotOf(lastOp.hash).depth = 10
    /\ SlotOf(lastOp.hash).key # lastOp.hash

\* C12: whenever the slot of the current hash holds an entry with that key and
\* a repetition counter of 2 or more, probeHash returns a hit with score 0 and
\* leaves the entry exact with score 0, whatever the stored depth and the depth
\* asked for
C12_RepetitionBeforeDepth ==
    \A h \in CacheHashes, d \in ProbeDepths, w \in CacheWindows :
        LET old == SlotOf(h)
            probe == probeHash(At(h), d, w.alpha, w.beta)
            new == probe.e.hashTable_[h % engine.numPositions_]
        IN  (old.flag # "NONE" /\ old.key = h /\ old.repetitionCount >= 2)
            => /\ probe.hit
               /\ probe.score = 0
               /\ new.flag = "EXACT"
               /\ new.score = 0

C15_KeyMatchIsWritten ==
    \A h \in CacheHashes :
        SlotOf(h).key = h => SlotOf(h).flag # "NONE" /\ SlotOf(h).depth >= 0

\* C16: tableEntries_ is the number of slots whose bound is not NONE
C16_OccupancyCounted ==
    engine.tableEntries_ =
        Cardinality({ i \in DOMAIN engine.hashTable_ : engine.hashTable_[i].flag # "NONE" })


(***************************************************************************)
(* The search one node at a time: alphaBeta entering a child (push, count, *)
(* probe), returning from it (record, uncount, pop), and finishing a depth *)
(* at the root, after position commands with and without a move history.   *)
(***************************************************************************)

\* the depth of the iteration walked: a node n plies from the root is probed
\* and recorded with depth MaxPath - n
MaxPath == 4

\* `position startpos moves d2d4 d7d5`, and the same followed by the queens'
\* shuffle d1d2 d8d7 d2d1 d7d8 back to the same position
PathPositionCommands ==
    {[root |-> StartPos, moves |-> <<"d2d4", "d7d5">>],
     [root |-> StartPos, moves |-> <<"d2d4", "d7d5", "d1d2", "d8d7", "d2d1", "d7d8">>]}

\* the plies from the root to the current node: `pushed` holds the moves
\* entered by the search and not yet left
PathLength == Len(pushed)

pathFrame == <<board, boardHash, futures, output, loop, commands, lastCmd>>

\* probeHash, lines 317-319: the probe answers from its repetition branch
RepetitionHit(e, depth) ==
    LET entry == e.hashTable_[Slot(e)]
    IN  entry.key = e.currentHash_ /\ entry.depth >= depth /\ entry.repetitionCount >= 2

InitPath ==
    /\ \E junk \in Indeterminate, sent \in PathPositionCommands :
          engine = updatePosition(Constructed(junk), sent)
    /\ lastOp = [op |-> "position", hit |-> FALSE, draw |-> FALSE]
    /\ futures = <<>>
    /\ output = <<>>
    /\ loop = "reading"
    /\ commands = [position |-> 1, go |-> 0, other |-> 0, positioned |-> TRUE]
    /\ lastCmd = [name |-> "position", inFlight |-> FALSE]
    /\ board = FenCastle
    /\ boardHash = zobristHash64Calculate(FenCastle)
    /\ pushed = <<>>

\* protocolLoop, lines 53-54: a position command between two searches
PathPosition ==
    /\ PathLength = 0
    /\ pushed' = pushed
    /\ \E sent \in PathPositionCommands : engine' = updatePosition(engine, sent)
    /\ lastOp' = [op |-> "position", hit |-> FALSE, draw |-> FALSE]
    /\ UNCHANGED pathFrame

\* alphaBeta, lines 254-257 and 213: a child is entered and probed, with the
\* full window
PathEnter ==
    /\ PathLength < MaxPath
    /\ ~lastOp.hit
    /\ \E i \in DOMAIN GameLegalMoves(engine.cr_) :
          LET entered == EnterMove(engine, GameLegalMoves(engine.cr_)[i])
              depth == MaxPath - (PathLength + 1)
              probe == probeHash(entered, depth, -MATE_SCORE, MATE_SCORE)
          IN  /\ engine' = probe.e
              /\ lastOp' = [op |-> "probeHash", hit |-> probe.hit,
                            draw |-> RepetitionHit(entered, depth)]
              /\ pushed' = Append(pushed, GameLegalMoves(engine.cr_)[i])
    /\ UNCHANGED pathFrame

\* the move that led from the parent to the current node
PathMove == pushed[PathLength]

\* what the node records when it returns without a cache hit (lines 227, 285)
PathRecorded ==
    recordHash(engine, MaxPath - PathLength, "EXACT", evaluate(engine),
               IF PathLength = MaxPath \/ GameLegalMoves(engine.cr_) = <<>>
               THEN NullMove ELSE GameLegalMoves(engine.cr_)[1])

\* alphaBeta, lines 214, 228, 286 and 258-260: the node returns to its parent
PathLeave ==
    /\ PathLength > 0
    /\ engine' = LeaveMove(IF lastOp.hit THEN engine ELSE PathRecorded, PathMove)
    /\ lastOp' = [op |-> "return", hit |-> FALSE, draw |-> FALSE]
    /\ pushed' = SubSeq(pushed, 1, PathLength - 1)
    /\ UNCHANGED pathFrame

\* alphaBeta, lines 285-286 at the root: the depth is finished
PathFinish ==
    /\ PathLength = 0
    /\ lastOp.op = "return"
    /\ engine' = PathRecorded
    /\ lastOp' = [op |-> "finish", hit |-> FALSE, draw |-> FALSE]
    /\ pushed' = pushed
    /\ UNCHANGED pathFrame

NextPath ==
    \/ PathPosition
    \/ PathEnter
    \/ PathLeave
    \/ PathFinish

SpecPath == InitPath /\ [][NextPath]_vars

\* the occurrences of the current position: in the game's repetition history,
\* on the search path below the root, and the root itself when the history
\* does not hold it
Occurrences ==
    LET here == engine.cr_.pos
        played == Append(engine.cr_.stack, here)
        path == SubSeq(played, Len(played) - PathLength, Len(played))
    IN  Count(engine.repetitionHashHistory_, Game[here].key)
        + Cardinality({ i \in 2..Len(path) : path[i] = here })
        + (IF path[1] = here /\ Len(path) > 1
              /\ Count(engine.repetitionHashHistory_, Game[here].key) = 0
           THEN 1 ELSE 0)

\* C13: a node the probe has just scored as a repetition draw is at least the
\* third occurrence of its position, counting the game's repetition history and
\* the search path
C13_DrawAtThirdOccurrence ==
    (lastOp.op = "probeHash" /\ lastOp.draw) => Occurrences >= 3


RECURSIVE LegalLine(_, _)
\* every move of pv is a legal move of the position the moves before it lead to
LegalLine(pos, pv) ==
    \/ pv = <<>>
    \/ /\ IsLegal(pos, pv[1])
       /\ LegalLine(GameMove(pos, pv[1]).to, Tail(pv))

MaxSearches == 2

MaxRoots == 2

\* the largest depth searched
MaxSearchDepth == 2

\* the windows searched with: the full window of inputGo and two narrow ones
SearchWindows ==
    {[alpha |-> -MATE_SCORE, beta |-> MATE_SCORE], [alpha |-> -1, beta |-> 1],
     [alpha |-> 4, beta |-> 21]}

InitSearch ==
    /\ \E junk \in Indeterminate, root \in Positions :
          engine = updatePosition(Constructed(junk), [root |-> root, moves |-> <<>>])
    /\ lastOp = [op |-> "position", alpha |-> 0, beta |-> 0, depth |-> 0, score |-> 0]
    /\ futures = <<>>
    /\ output = <<>>
    /\ loop = "reading"
    /\ commands = [position |-> 1, go |-> 0, other |-> 0, positioned |-> TRUE]
    /\ lastCmd = [name |-> "position", inFlight |-> FALSE]
    /\ board = FenCastle
    /\ boardHash = zobristHash64Calculate(FenCastle)
    /\ pushed = <<>>

\* protocolLoop, lines 53-54: position fen <any position of the graph>
SearchPosition ==
    /\ commands.position < MaxRoots
    /\ \E root \in Positions :
          engine' = updatePosition(engine, [root |-> root, moves |-> <<>>])
    /\ commands' = [commands EXCEPT !.position = @ + 1]
    /\ lastOp' = [op |-> "position", alpha |-> 0, beta |-> 0, depth |-> 0, score |-> 0]
    /\ UNCHANGED <<board, boardHash, pushed, futures, output, loop, lastCmd>>

\* one call of alphaBeta at the root
SearchCall ==
    /\ commands.go < MaxSearches
    /\ \E w \in SearchWindows, d \in 1..MaxSearchDepth :
          LET searched == alphaBeta(engine, w.alpha, w.beta, d, d)
          IN  /\ engine' = searched.e
              /\ lastOp' = [op |-> "alphaBeta", alpha |-> w.alpha, beta |-> w.beta,
                            depth |-> d, score |-> searched.score]
    /\ commands' = [commands EXCEPT !.go = @ + 1]
    /\ UNCHANGED <<board, boardHash, pushed, futures, output, loop, lastCmd>>

NextSearch ==
    \/ SearchPosition
    \/ SearchCall

SpecSearch == InitSearch /\ [][NextSearch]_vars

\* C17: at every node, for every window and depth and every child i reached by
\* the loop with the window's alpha: when the child's negated, mate-aged score
\* is beta or more, alphaBeta returns beta with the cache as recordHash(depth,
\* BETA, beta, that move) leaves it right after that child: nothing of a later
\* child is searched, counted or recorded
C17_BetaCutoff ==
    \A w \in SearchWindows, d \in 1..MaxSearchDepth :
        LET legalMoves == GameLegalMoves(engine.cr_)
        IN  \A i \in DOMAIN legalMoves :
                LET mv == legalMoves[i]
                    child == alphaBeta(EnterMove(engine, mv), -w.beta, -w.alpha,
                                       d - 1, d)
                    left == LeaveMove(child.e, mv)
                IN  MateCorrection(-child.score) >= w.beta
                    => alphaBetaFrom(engine, w.alpha, w.beta, d, d, i, legalMoves,
                                     legalMoves[1], "ALPHA")
                       = [score |-> w.beta,
                          e |-> recordHash(left, d, "BETA", w.beta, mv)]

\* a call has returned beta from its second child or a later one and left the
\* lower bound with that move in the root's slot
C17_Witness ==
    /\ lastOp.op = "alphaBeta"
    /\ lastOp.score = lastOp.beta
    /\ LET entry == engine.hashTable_[Slot(engine)]
       IN  /\ entry.key = engine.currentHash_
           /\ entry.flag = "BETA"
           /\ entry.score = lastOp.beta
           /\ entry.depth = lastOp.depth
           /\ entry.bestMove # GameLegalMoves(engine.cr_)[1]
           /\ Len(GameLegalMoves(engine.cr_)) >= 3


(***************************************************************************)
(* A session on finished games: the GUI that waits sets up positions where *)
(* the side to move is mated or stalemated, or is one move from mating,    *)
(* and searches them.                                                      *)
(***************************************************************************)

\* the largest depth given in a `go depth <d>` command of this session
MaxGoDepthOver == 2

\* position fen <14: mate in one>, the same with the mating move played (15:
\* black is mated), and fen <21: black is stalemated>, <9: white is mated>
OverPositionCommands ==
    {[root |-> 14, moves |-> <<>>], [root |-> 14, moves |-> <<"e5e7">>],
     [root |-> 21, moves |-> <<>>], [root |-> 9, moves |-> <<>>]}

OverGoCommands ==
    {[maxSearchDepth |-> d, usingTime |-> FALSE] : d \in 1..MaxGoDepthOver}

NextOver ==
    \/ Waits /\ IsReady
    \/ Waits /\ Position(OverPositionCommands)
    \/ Waits /\ Go(OverGoCommands)
    \/ Quit
    \/ Return
    \/ \E i \in DOMAIN futures : GoStart(i)
    \/ \E i \in DOMAIN futures : GoIterate(i)
    \/ \E i \in DOMAIN futures : GoBestMove(i)

SpecOver == Init /\ [][NextOver]_vars

\* C19: the bestmove line of every search whose root has no legal move (the
\* side to move is mated or stalemated) is `bestmove 0000`
C19_NoMoveBestMoveNull ==
    \A k \in DOMAIN output :
        (/\ output[k].kind = "bestmove"
         /\ Len(GameLegalMoves(futures[output[k].go].start.cr_)) = 0)
        => output[k].pv = <<NullMove>>


(***************************************************************************)
(* Board level: the move list of a `position` command, token by token,     *)
(* with tokens that are not legal moves among them.                        *)
(***************************************************************************)

\* what updatePosition's local `mv` (line 114, no initialiser) may hold before
\* the first token is read: zero-filled memory, or a move some earlier call
\* left on the stack
UninitialisedMoves ==
    {MkMove(a8, a8, "NOT_SPECIAL", ""), MkMove(h1, h8, "NOT_SPECIAL", "r")}

\* the specials whose case in zobristHash64Update never reads squares[move.src]
FixedSquareSpecials ==
    {"SPECIAL_WK_CASTLING", "SPECIAL_BK_CASTLING", "SPECIAL_WQ_CASTLING",
     "SPECIAL_BQ_CASTLING", "SPECIAL_WEN_PASSANT", "SPECIAL_BEN_PASSANT"}

\* what pieceNumber[piece - 'B'] may read when squares[move.src] is ' ', an
\* index before the array: here the number of a pawn or of a knight
OutOfBoundsPieces == {"p", "N"}

\* zobristHash64Update called with a move that TerseIn did not set: every hash
\* it may return
StaleUpdate(hash, cr, mv) ==
    IF cr.squares[mv.src] # " " \/ mv.special \in FixedSquareSpecials
    THEN {zobristHash64Update(hash, cr, mv)}
    ELSE {zobristHash64Update(hash, [cr EXCEPT !.squares[mv.src] = c], mv) :
            c \in OutOfBoundsPieces}

\* Engine::updatePosition, lines 120-126, for a token that is not a legal move:
\* Move::TerseIn returns false and leaves mv as it was (the move of the token
\* before, or uninitialised at the first token); its result is not looked at,
\* and the hash update and PlayMove run with that mv.  Nothing is written to
\* outputStream_.
ListIllegalToken ==
    /\ pushed = <<>>
    /\ Plies < MaxPly
    /\ \E mv \in (IF lastOp.op = "fen" THEN UninitialisedMoves ELSE {lastOp.move}) :
          /\ boardHash' \in StaleUpdate(boardHash, board, mv)
          /\ board' = PushMove(board, mv)
          /\ lastOp' = [op |-> "illegal", move |-> mv]
    /\ UNCHANGED pushed
    /\ UNCHANGED engineVars

NextList == PlayListedMove \/ ListIllegalToken

SpecList == InitHash /\ [][NextList]_vars

\* C20: a token of the move list that is not a legal move leaves the men, the
\* side to move and the hash as they were
C20_IllegalTokenSkipped ==
    [][lastOp'.op = "illegal"
       => /\ board'.squares = board.squares
          /\ board'.white = board.white
          /\ boardHash' = boardHash]_vars


(***************************************************************************)
(* A session whose input stream ends: the GUI that waits sends commands,   *)
(* then closes the stream with or without a quit.  protocolLoop never      *)
(* tests inputStream_: std::getline on the ended stream fails and leaves   *)
(* `command` as it was, and the loop handles that command again.           *)
(* loop = "eof" is protocolLoop reading from the ended stream.             *)
(***************************************************************************)

\* the most reads from the ended stream that are followed
MaxPastEnd == 2

\* the one position command and the one go command of this session
EofPosition == [root |-> StartPos, moves |-> <<"d2d4", "d7d5">>]

EofGo == [maxSearchDepth |-> 1, usingTime |-> FALSE]

InitEof ==
    /\ \E junk \in Indeterminate : engine = Constructed(junk)
    /\ futures = <<>>
    /\ output = uciHandShake(<<>>)
    /\ loop = "reading"
    /\ commands = [position |-> 0, go |-> 0, other |-> 0, positioned |-> FALSE,
                   pastEnd |-> 0]
    /\ lastCmd = [name |-> "uci", inFlight |-> FALSE]
    /\ board = FenCastle
    /\ boardHash = zobristHash64Calculate(FenCastle)
    /\ pushed = <<>>
    /\ lastOp = [op |-> "fen", move |-> MkMove(SQUARE_INVALID, SQUARE_INVALID, "NOT_SPECIAL", " ")]

\* the stream has no more lines
EndOfStream ==
    /\ loop = "reading"
    /\ Running = {}
    /\ loop' = "eof"
    /\ UNCHANGED <<engine, futures, output, commands, lastCmd, boardVars>>

\* protocolLoop, lines 29-61, on the ended stream: line 30 reads nothing, the
\* if-chain runs on the command read last
ReadPastEnd ==
    /\ loop = "eof"
    /\ commands.pastEnd < MaxPastEnd
    /\ commands' = [commands EXCEPT !.pastEnd = @ + 1]
    /\ CASE lastCmd.name = "uci" ->
               /\ output' = uciHandShake(output)
               /\ engine' = initHashTable(resetBoard(engine))
               /\ UNCHANGED futures
         [] lastCmd.name = "isready" ->
               /\ output' = Append(output, PlainLine("readyok"))
               /\ UNCHANGED <<engine, futures>>
         [] lastCmd.name = "ucinewgame" ->
               /\ engine' = initHashTable(resetBoard(engine))
               /\ UNCHANGED <<output, futures>>
         [] lastCmd.name \in {"setoption", "register"} ->
               /\ output' = Append(output, PlainLine("info string"))
               /\ UNCHANGED <<engine, futures>>
         [] lastCmd.name = "position" ->
               /\ engine' = updatePosition(engine, EofPosition)
               /\ UNCHANGED <<output, futures>>
         [] lastCmd.name = "go" ->
               /\ futures' = Append(futures,
                     [pc |-> "start", maxSearchDepth |-> EofGo.maxSearchDepth,
                      usingTime |-> EofGo.usingTime, incrementalDepth |-> 1,
                      stopReceived |-> FALSE,
                      start |-> [cr_ |-> engine.cr_, currentHash_ |-> engine.currentHash_,
                                 repetitionCounts |-> RepetitionCounts(engine),
                                 tableEntries_ |-> engine.tableEntries_]])
               /\ UNCHANGED <<engine, output>>
    /\ UNCHANGED <<loop, lastCmd, boardVars>>

NextEof ==
    \/ Waits /\ Uci
    \/ Waits /\ IsReady
    \/ Waits /\ UciNewGame
    \/ Waits /\ Unsupported
    \/ Waits /\ Position({EofPosition})
    \/ Waits /\ Go({EofGo})
    \/ Quit
    \/ Return
    \/ EndOfStream
    \/ ReadPastEnd
    \/ \E i \in DOMAIN futures : GoStart(i)
    \/ \E i \in DOMAIN futures : GoIterate(i)
    \/ \E i \in DOMAIN futures : GoBestMove(i)

SpecEof == InitEof /\ [][NextEof]_vars

\* C21: reading from the ended stream without a quit, the step protocolLoop
\* takes is its return
C21_EndOfStreamReturns ==
    [][loop = "eof" => loop' = "returned"]_<<loop, commands>>

C23_SetOptionDepthHonoured ==
    [][(lastCmd.name = "setoption" /\ lastCmd'.name = "go")
       => futures'[Len(futures')].maxSearchDepth # DefaultDepth]_vars

\* what a search printed, without the number of the search
Printed(i) ==
    [k \in DOMAIN LinesOf(i) |->
        [kind |-> LinesOf(i)[k].kind, depth |-> LinesOf(i)[k].depth,
         mate |-> LinesOf(i)[k].mate, score |-> LinesOf(i)[k].score,
         pv |-> LinesOf(i)[k].pv]]

\* C24: two finished searches of the same position, with the same repetition
\* counters, the same depth cap of one or more and no clock, neither answered
\* from the book, printed the same info lines and the same bestmove
C24_SameSearchSameOutput ==
    \A i, j \in DOMAIN futures :
        (/\ futures[i].pc = "done" /\ futures[j].pc = "done"
         /\ futures[i].start.cr_.pos = futures[j].start.cr_.pos
         /\ futures[i].start.currentHash_ = futures[j].start.currentHash_
         /\ futures[i].start.repetitionCounts = futures[j].start.repetitionCounts
         /\ futures[i].maxSearchDepth = futures[j].maxSearchDepth
         /\ futures[i].maxSearchDepth >= 1
         /\ ~futures[i].usingTime /\ ~futures[j].usingTime
         /\ Len(LinesOf(i)) > 1 /\ Len(LinesOf(j)) > 1)
        => Printed(i) = Printed(j)

RECURSIVE PositionsOf(_, _)
\* the positions a move list runs through, the start position first
PositionsOf(pos, moves) ==
    IF moves = <<>> THEN <<pos>>
    ELSE <<pos>> \o PositionsOf(GameMove(pos, Head(moves)).to, Tail(moves))

\* the hashes of the positions from the one the last capture or pawn move of
\* the list produced (the start position when there is none) to the last one
SinceIrreversible(command) ==
    LET ps == PositionsOf(command.root, command.moves)
        irreversible == {k \in DOMAIN command.moves :
                            GameMove(ps[k], command.moves[k]).irreversible}
        last == IF irreversible = {} THEN 0
                ELSE CHOOSE k \in irreversible : \A l \in irreversible : l <= k
    IN  [i \in 1..(Len(ps) - last) |-> Game[ps[last + i]].key]

\* C25: after a position command the repetition history is, in order, the
\* hashes of the positions since the last capture or pawn move of the list,
\* the position that move produced included
C25_HistorySinceIrreversible ==
    \A command \in PathPositionCommands \cup PositionCommands :
        updatePosition(engine, command).repetitionHashHistory_
            = SinceIrreversible(command)

\* C26: right after a position command every slot's repetition counter is the
\* number of entries of the repetition history whose hash maps to the slot
C26_CountersMatchHistory ==
    lastCmd.name = "position"
    => \A slot \in DOMAIN engine.hashTable_ :
          engine.hashTable_[slot].repetitionCount
          = Cardinality({i \in DOMAIN engine.repetitionHashHistory_ :
                           engine.repetitionHashHistory_[i] % engine.numPositions_ = slot})

\* C27: for every position that is neither drawn nor mate nor stalemate, with
\* material M and positional score R from EvaluateLeaf, evaluate returns
\* 4M + R with white to move and -(4M + R) with black to move
C27_EvaluateFromSideToMove ==
    \A p \in Positions :
        (Game[p].moves # <<>> /\ ~Game[p].draw)
        => evaluate([engine EXCEPT !.cr_ = [pos |-> p, stack |-> <<>>]])
           = IF Game[p].white THEN 4 * Game[p].material + Game[p].positional
             ELSE -(4 * Game[p].material + Game[p].positional)

\* C28: when an iteration is about to call alphaBeta at the root (ply 0) with
\* the use-previous-line flag set and a previous line of one move or more: if
\* the line's first move is a legal move of the root, the ordering puts it
\* first and keeps the flag; if it is not, the ordering clears the flag
C28_OrderingClearsFlag ==
    \A i \in DOMAIN futures :
        LET legalMoves == GameLegalMoves(engine.cr_)
            want == engine.globalPvLine_.moves[1]
        IN  (/\ futures[i].pc = "loop"
             /\ futures[i].incrementalDepth <= futures[i].maxSearchDepth
             /\ engine.usingPreviousLine_
             /\ 0 < engine.globalPvLine_.moveCount
             /\ legalMoves # <<>>)
            => IF \E k \in DOMAIN legalMoves : legalMoves[k] = want
               THEN /\ OrderMoves(engine, legalMoves, 0)[1] = want
                    /\ KeepsPreviousLine(engine, 0)
               ELSE ~KeepsPreviousLine(engine, 0)

\* C29: a step that takes the engine from outside opening mode back into it is
\* the handling of uci or ucinewgame
C29_OpeningModeLeftForGood ==
    [][(~engine.isOpening_ /\ engine'.isOpening_)
       => lastCmd'.name \in {"uci", "ucinewgame"}]_vars

\* C30: no score recorded and no bound of a window probed with is 0, so a
\* probe can answer 0 only for a repetition; a probe of a position whose
\* slot's repetition counter is below 2 does not answer 0
C30_NoDrawLeftBehind ==
    \A h \in CacheHashes, d \in ProbeDepths, w \in CacheWindows :
        LET probe == probeHash(At(h), d, w.alpha, w.beta)
        IN  SlotOf(h).repetitionCount < 2 => ~(probe.hit /\ probe.score = 0)

====
